---- MODULE Spec2Model ----
(***************************************************************************)
(* The QRx shell: one submitted line is parsed into a list of AST          *)
(* statements, which Kernel.runCommand evaluates one after the other with  *)
(* AstExecutor.executeNode.  executeNode is an async recursive function;   *)
(* it is modelled as a stack of frames, one per call in progress, each     *)
(* with the position (pc) the call has reached.  Every await of the source *)
(* is a step boundary.                                                     *)
(*                                                                         *)
(* Text is a sequence of tokens (words, " ", "/", "\n", "\r"): string      *)
(* concatenation is \o and the empty string is << >>.  A word of the       *)
(* command line (an argument, a redirection file) and a path are held as   *)
(* the list of pieces split('/') gives: "/d/f" is <<"", "d", "f">>, "f"    *)
(* is <<"f">>, "/" is <<"", "">> and "" is <<"">>.                         *)
(***************************************************************************)
EXTENDS Integers, Sequences, FiniteSets, TLC

VARIABLES kernel, pfs, term, task

vars == <<kernel, pfs, term, task>>

(***************************************************************************)
(* Bounds of the model.                                                    *)
(***************************************************************************)
\* statements in one submitted line
MaxStmts == 3
\* child statements of a group, or of one branch of an if
MaxBlock == 2
\* characters of a line typed freely
MaxTyped == 3
\* the number of pieces of a path given to resolvePath
MaxParts == 3
\* the number of cd lines of a session
MaxCds == 3
\* the number of characters typed after a prompt
MaxKeys == 2
\* the number of Backspace keys taken after a prompt
MaxErased == 1

-----------------------------------------------------------------------------
(***************************************************************************)
(* Text                                                                    *)
(***************************************************************************)
Empty == << >>

\* the null stdin of executeNode(node, stdin = null): cat tells it from ''
Null == <<"<null>">>

RECURSIVE Join(_, _)
\* Array.prototype.join: the texts of a list with sep between them
Join(list, sep) ==
    IF list = << >> THEN Empty
    ELSE IF Len(list) = 1 THEN list[1]
    ELSE list[1] \o sep \o Join(Tail(list), sep)

RECURSIVE Crlf(_)
\* String(data).replace(/\n/g, '\r\n')
Crlf(data) ==
    IF data = << >> THEN << >>
    ELSE (IF Head(data) = "\n" THEN <<"\r", "\n">> ELSE <<Head(data)>>)
         \o Crlf(Tail(data))

\* the decimal string of a status, one token
StatusText(n) ==
    <<ToString(n)>>

-----------------------------------------------------------------------------
(***************************************************************************)
(* Paths (sys/util/path.js)                                                *)
(***************************************************************************)
Root == <<"", "">>

RECURSIVE ResolveParts(_, _)
\* the for loop of resolvePath over the pieces of the full path
ResolveParts(parts, resolvedParts) ==
    IF parts = << >> THEN resolvedParts
    ELSE LET part == Head(parts) IN
         IF part = ".."
         THEN ResolveParts(Tail(parts),
                  IF Len(resolvedParts) > 0
                  THEN SubSeq(resolvedParts, 1, Len(resolvedParts) - 1)
                  ELSE resolvedParts)
         ELSE IF part # "." /\ part # ""
         THEN ResolveParts(Tail(parts), Append(resolvedParts, part))
         ELSE ResolveParts(Tail(parts), resolvedParts)

\* resolvePath without the loop over the parts: the full path as it is
resolvePathUnresolved(path, cwd) ==
    IF path = <<"">> THEN cwd
    ELSE IF Len(path) >= 2 /\ path[1] = "" THEN path
    ELSE cwd \o path

resolvePath(path, cwd) ==
    IF path = <<"">> THEN cwd
    ELSE LET fullPath == IF Len(path) >= 2 /\ path[1] = "" THEN path
                         ELSE cwd \o path
             resolvedParts == ResolveParts(fullPath, << >>)
         IN  IF resolvedParts = << >> THEN Root ELSE <<"">> \o resolvedParts

-----------------------------------------------------------------------------
(***************************************************************************)
(* Storage: kernel.pfs (LightningFS promises API), an external             *)
(* collaborator.  files maps each existing file's absolute path to its     *)
(* content; dirs is the set of existing directories.                       *)
(***************************************************************************)
Parent(path) ==
    IF Len(path) <= 2 THEN Root ELSE SubSeq(path, 1, Len(path) - 1)

\* readFile rejects (ENOENT, EISDIR) unless the path is an existing file
CanRead(fs, path) ==
    path \in DOMAIN fs.files

\* writeFile rejects when the parent directory is missing (ENOENT) or the
\* path is a directory (EISDIR)
CanWrite(fs, path) ==
    /\ path \notin fs.dirs
    /\ Parent(path) \in fs.dirs

writeFile(fs, path, content) ==
    [fs EXCEPT !.files = (path :> content) @@ fs.files]

\* the message of the error a rejected writeFile carries
WriteErrorMessage(fs, path) ==
    IF path \in fs.dirs THEN <<"EISDIR">> ELSE <<"ENOENT">>

-----------------------------------------------------------------------------
(***************************************************************************)
(* AST nodes (postprocess functions of the grammar).  A node without a     *)
(* redirection has redirection.mode = "none" (undefined in the source); a  *)
(* group, a then_branch and a non-null else_branch are never empty, since  *)
(* command_list has at least one command_unit, so else_branch = << >>      *)
(* stands for else_branch: null.                                           *)
(***************************************************************************)
NoRedirection == [mode |-> "none", file |-> <<"">>]

Command(name, args) ==
    [type |-> "command", name |-> name, args |-> args,
     redirection |-> NoRedirection, background |-> FALSE]

Pipeline(from, to) ==
    [type |-> "pipeline", from |-> from, to |-> to,
     redirection |-> NoRedirection, background |-> FALSE]

LogicalAnd(left, right) ==
    [type |-> "logical_and", left |-> left, right |-> right,
     redirection |-> NoRedirection, background |-> FALSE]

LogicalOr(left, right) ==
    [type |-> "logical_or", left |-> left, right |-> right,
     redirection |-> NoRedirection, background |-> FALSE]

Group(commands) ==
    [type |-> "group", commands |-> commands,
     redirection |-> NoRedirection, background |-> FALSE]

IfStatement(condition, then_branch, else_branch) ==
    [type |-> "if_statement", condition |-> condition,
     then_branch |-> then_branch, else_branch |-> else_branch,
     redirection |-> NoRedirection, background |-> FALSE]

ErrorNode(message) ==
    [type |-> "error", message |-> message,
     redirection |-> NoRedirection, background |-> FALSE]

\* command_group -> command_group _ redirect
Redirect(node, mode, file) ==
    [node EXCEPT !.redirection = [mode |-> mode, file |-> file]]

\* command_unit -> logical_sequence _ "&"
Background(node) ==
    [node EXCEPT !.background = TRUE]

HasRedirection(node) ==
    node.redirection.mode # "none"

(***************************************************************************)
(* The place of a node in the submitted line is the path of child indexes  *)
(* from the line's statement list: <<i>> is statement i; under a pipeline  *)
(* 1 is from and 2 is to; under a logical node 1 is left and 2 is right;   *)
(* under a group k is commands[k]; under an if_statement <<1>> is the      *)
(* condition, <<2, k>> is then_branch[k] and <<3, k>> is else_branch[k].   *)
(***************************************************************************)
RECURSIVE NodeAt(_, _)
NodeAt(node, path) ==
    IF path = << >> THEN node
    ELSE CASE node.type = "pipeline" ->
                NodeAt(IF path[1] = 1 THEN node.from ELSE node.to, Tail(path))
           [] node.type \in {"logical_and", "logical_or"} ->
                NodeAt(IF path[1] = 1 THEN node.left ELSE node.right, Tail(path))
           [] node.type = "group" ->
                NodeAt(node.commands[path[1]], Tail(path))
           [] node.type = "if_statement" ->
                IF path[1] = 1 THEN NodeAt(node.condition, Tail(path))
                ELSE NodeAt((IF path[1] = 2 THEN node.then_branch
                             ELSE node.else_branch)[path[2]],
                            Tail(Tail(path)))

\* the node of a line (a list of statements) at a non-empty path
LineNodeAt(ast, path) ==
    NodeAt(ast[path[1]], Tail(path))

-----------------------------------------------------------------------------
(***************************************************************************)
(* State.                                                                  *)
(*   kernel  the Kernel object's fields.  kernel.write stands for the pair *)
(*           kernel.write / kernel.writeln, which the source always swaps  *)
(*           and restores together: it names the sink the pair writes to.  *)
(*   pfs     storage                                                       *)
(*   term    the text written to the terminal (xterm) so far               *)
(*   task    the runCommand invocation in flight: its statement list, the  *)
(*           loop position, the stack of executeNode calls in progress,    *)
(*           the value a finished call hands to its caller (ret), and two  *)
(*           history variables: the storage as it was when the line was    *)
(*           submitted (pfs0) and the record of what the evaluation did    *)
(*           (log).  A session is followed through one submitted line,     *)
(*           from each stored state a previous session can have left.      *)
(***************************************************************************)
TermSink == [kind |-> "term", depth |-> 0, owner |-> << >>]

\* () => {} : the sink of a background command without redirection
NoSink == [kind |-> "none", depth |-> 0, owner |-> << >>]

\* (data) => buffer.push(data) of the command call at this stack depth;
\* the closure is the one made for the node at path owner[2..] of the line
\* numbered owner[1]
BufferSink(depth, owner) == [kind |-> "buffer", depth |-> depth, owner |-> owner]

\* kernel.currentProcess: null, the promise executeSingleCommand returned
\* for the command node at path owner[2..] of line owner[1], or the object
\* {cancel: cancelEdit} the editor of that command has put there
NoProcess == [kind |-> "null", owner |-> << >>]

PromiseOf(owner) == [kind |-> "promise", owner |-> owner]

CancelHook(owner) == [kind |-> "cancel", owner |-> owner]

NoResult == [stdout |-> Empty, status |-> 0]

NoRet == << >>

\* a call of runCommand: line is its number in the session, other the
\* call of runCommand that is suspended while this one runs (none, or one)
IdleTask ==
    [pc |-> "idle", ast |-> << >>, i |-> 0, stack |-> << >>, ret |-> NoRet,
     pfs0 |-> [files |-> << >>, dirs |-> {}], log |-> << >>,
     line |-> 1, other |-> << >>]

\* a call of executeNode(node, stdin), about to run
Frame(node, path, stdin) ==
    [node |-> node, path |-> path, stdin |-> stdin, pc |-> "start",
     result |-> NoResult, leftResult |-> NoResult, i |-> 0,
     buffer |-> << >>, originalWrite |-> TermSink, args |-> << >>,
     commandResult |-> << >>, file |-> << >>, content |-> Empty,
     editor |-> "none", hasChanges |-> FALSE, filePath |-> << >>,
     textarea |-> Empty]

World == [kernel |-> kernel, pfs |-> pfs, term |-> term, task |-> task]

Commit(w) ==
    /\ kernel' = w.kernel
    /\ pfs' = w.pfs
    /\ term' = w.term
    /\ task' = w.task

Top(w) == w.task.stack[Len(w.task.stack)]

Depth(w) == Len(w.task.stack)

\* the world with the top frame replaced
SetTop(w, frame) ==
    [w EXCEPT !.task.stack[Len(w.task.stack)] = frame]

\* an entry of the log: what happened (enter and exit of an executeNode
\* call, the result of its switch, the run of a command, a write of a
\* command that did not go to the terminal (out), a write to storage
\* that resolved or that failed, a write to the terminal, a save of the
\* editor), at which node of
\* the line, with which text and status; where is the file for a write and
\* the working directory otherwise
Event(ev, path, where, text, status) ==
    [ev |-> ev, path |-> path, where |-> where, text |-> text, status |-> status]

Log(w, event) ==
    [w EXCEPT !.task.log = Append(@, event)]

(***************************************************************************)
(* Output.  Kernel.write and Kernel.writeln (kernel.js 130-131) write to   *)
(* the terminal; while a command runs, executeNode replaces them by        *)
(* closures that push to the command's buffer (AstExecutor.js 112-119).    *)
(***************************************************************************)
\* Kernel.write: this.term.write(String(data).replace(/\n/g, '\r\n'))
TermWrite(w, path, data) ==
    Log([w EXCEPT !.term = @ \o Crlf(data)],
        Event("term", path, w.kernel.cwd, Crlf(data), 0))

\* whatever kernel.write is at this moment, called with data
\* the buffer of the closure sink belongs to a command call of the
\* runCommand call t that has not yet returned
Alive(t, sink) ==
    /\ t.line = sink.owner[1]
    /\ sink.depth <= Len(t.stack)
    /\ t.stack[sink.depth].path = Tail(sink.owner)
    /\ t.stack[sink.depth].pc = "command"

\* buffer.push(data) through the closure sink: the buffer is that of a
\* command call of this runCommand call or of the suspended one; the buffer
\* of a call that has returned is read by nobody
Push(w, sink, data) ==
    IF Alive(w.task, sink)
    THEN [w EXCEPT !.task.stack[sink.depth].buffer = Append(@, data)]
    ELSE IF w.task.other # << >> /\ Alive(w.task.other[1], sink)
    THEN [w EXCEPT !.task.other[1].stack[sink.depth].buffer = Append(@, data)]
    ELSE w

KernelWrite(w, path, data) ==
    LET sink == w.kernel.write
        w1 == Log(w, Event("out", path, w.kernel.cwd, data, 0))
    IN  CASE sink.kind = "term" -> TermWrite(w, path, data)
          [] sink.kind = "buffer" -> Push(w1, sink, data)
          [] OTHER -> w1

\* whatever kernel.writeln is at this moment: Kernel.writeln is
\* this.write(data + '\r\n'), the capturing one is buffer.push(data + '\n')
KernelWriteln(w, path, data) ==
    LET sink == w.kernel.write
        w1 == Log(w, Event("out", path, w.kernel.cwd, data \o <<"\n">>, 0))
    IN  CASE sink.kind = "term" -> TermWrite(w, path, data \o <<"\r", "\n">>)
          [] sink.kind = "buffer" -> Push(w1, sink, data \o <<"\n">>)
          [] OTHER -> w1

-----------------------------------------------------------------------------
(***************************************************************************)
(* Commands: the registry kernel.commands (sys/cmd) and the session        *)
(* built-ins.  A run returns << >> for undefined and <<n>> for number n.   *)
(***************************************************************************)
RECURSIVE WordText(_)
\* the text of a word: its pieces with "/" between them
WordText(word) ==
    IF word = << >> THEN Empty
    ELSE (IF Head(word) = "" THEN Empty ELSE <<Head(word)>>)
         \o (IF Len(word) > 1 THEN <<"/">> ELSE Empty)
         \o WordText(Tail(word))

WordTexts(args) ==
    [k \in DOMAIN args |-> WordText(args[k])]

\* names with a run capability in kernel.commands
Registered == {"echo", "cat", "cd", "git", "ed"}

\* the characters of the command names of the model
Chars(name) ==
    CASE name = "X=1" -> <<"X", "=", "1">>
      [] name = "_y=2" -> <<"_", "y", "=", "2">>
      [] name = "9=1" -> <<"9", "=", "1">>
      [] name = "echo" -> <<"e", "c", "h", "o">>
      [] name = "cat" -> <<"c", "a", "t">>
      [] name = "cd" -> <<"c", "d">>
      [] name = "zzz" -> <<"z", "z", "z">>
      [] name = "help" -> <<"h", "e", "l", "p">>
      [] name = "git" -> <<"g", "i", "t">>
      [] name = "ed" -> <<"e", "d">>
      [] OTHER -> << >>

\* [a-zA-Z_] and [a-zA-Z0-9_] over the characters of the model
NameStart ==
    {"X", "_", "y", "e", "c", "h", "o", "a", "t", "d", "z", "l", "p", "g", "i"}

NameChar == NameStart \cup {"1", "2", "9"}

\* name.match(/^([a-zA-Z_][a-zA-Z0-9_]*)=(.+)/s): << >> for null, else the
\* groups <<1, 2>>; group 1 holds no "=", so it ends at the first one
assignMatch(name) ==
    LET chars == Chars(name)
        equals == {k \in DOMAIN chars : chars[k] = "="}
    IN  IF equals = {} THEN << >>
        ELSE LET e == CHOOSE k \in equals : \A j \in equals : k <= j IN
             IF /\ e > 1
                /\ chars[1] \in NameStart
                /\ \A k \in 2..(e - 1) : chars[k] \in NameChar
                /\ e < Len(chars)
             THEN <<SubSeq(chars, 1, e - 1), SubSeq(chars, e + 1, Len(chars))>>
             ELSE << >>

\* value.replace(/^['"]|['"]$/g, ''): a quote at the start, one at the end
StripQuotes(value) ==
    LET quotes == {"'", "\""}
        first == IF value # << >> /\ value[1] \in quotes THEN 2 ELSE 1
        rest == SubSeq(value, first, Len(value))
        last == IF rest # << >> /\ rest[Len(rest)] \in quotes
                THEN Len(rest) - 1 ELSE Len(rest)
    IN  SubSeq(rest, 1, last)

\* IsAssignment whatever the arguments
IsAssignmentWithArgs(name, args) ==
    assignMatch(name) # << >>

\* line 192: assignMatch && expandedArgs.length === 0
IsAssignment(name, args) ==
    assignMatch(name) # << >> /\ Len(args) = 0

\* line 193: env[assignMatch[1]] = assignMatch[2] without its quotes
Assign(env, name) ==
    LET groups == assignMatch(name) IN
    (groups[1] :> StripQuotes(groups[2])) @@ env

\* args.map(arg => arg === '$?' ? String(this.kernel.lastExitStatus) : arg)
ExpandArgs(args, lastExitStatus) ==
    [k \in DOMAIN args |->
        IF args[k] = <<"$?">> THEN StatusText(lastExitStatus) ELSE args[k]]

\* sys/cmd/echo.js
EchoRun(w, path, args, stdin) ==
    [w |-> KernelWriteln(w, path, Join(WordTexts(args), <<" ">>)),
     returned |-> << >>]

RECURSIVE CatFiles(_, _, _, _)
\* the for loop of cat.run over its file arguments
CatFiles(w, path, args, hadError) ==
    IF args = << >> THEN [w |-> w, returned |-> <<IF hadError THEN 1 ELSE 0>>]
    ELSE LET absolutePath == resolvePath(Head(args), w.kernel.cwd) IN
         IF CanRead(w.pfs, absolutePath)
         THEN CatFiles(KernelWrite(w, path, w.pfs.files[absolutePath]),
                       path, Tail(args), hadError)
         ELSE CatFiles(KernelWriteln(w, path,
                           <<"cat: ">> \o WordText(Head(args))
                           \o <<": No such file or directory">>),
                       path, Tail(args), TRUE)

\* sys/cmd/cat.js
CatRun(w, path, args, stdin) ==
    IF stdin # Null
    THEN [w |-> KernelWrite(w, path, stdin), returned |-> <<0>>]
    ELSE IF Len(args) = 0
    THEN [w |-> KernelWriteln(w, path, <<"cat: missing file operand">>),
          returned |-> <<1>>]
    ELSE CatFiles(w, path, args, FALSE)

\* cd.run that takes the resolved target without asking stat
CdRunUnchecked(w, path, args, stdin) ==
    LET arg == IF Len(args) > 0 /\ args[1] # <<"">> THEN args[1] ELSE Root IN
    [w |-> [w EXCEPT !.kernel.cwd = resolvePath(arg, w.kernel.cwd)],
     returned |-> <<0>>]

\* sys/cmd/cd.js
CdRun(w, path, args, stdin) ==
    LET arg == IF Len(args) > 0 /\ args[1] # <<"">> THEN args[1] ELSE Root
        targetPath == resolvePath(arg, w.kernel.cwd)
    IN  IF targetPath \in w.pfs.dirs
        THEN [w |-> [w EXCEPT !.kernel.cwd = targetPath], returned |-> <<0>>]
        ELSE IF targetPath \in DOMAIN w.pfs.files
        THEN [w |-> KernelWriteln(w, path,
                        <<"-qrx: cd: not a directory: ">> \o WordText(arg)),
              returned |-> <<1>>]
        ELSE [w |-> KernelWriteln(w, path,
                        <<"-qrx: cd: no such file or directory: ">>
                        \o WordText(arg)),
              returned |-> <<1>>]

\* handleBuiltins that writes its message and returns no status
handleBuiltinsWithoutStatus(w, path, name, args) ==
    CASE name = "help" ->
            [w |-> KernelWriteln(w, path,
                       <<"Builtins: help, clear. Commands: ", "cat, cd, echo, ed, git">>),
             returned |-> << >>]
      [] name = "clear" ->
            [w |-> [w EXCEPT !.term = Empty], returned |-> << >>]
      [] name = "" ->
            [w |-> w, returned |-> << >>]
      [] OTHER ->
            [w |-> KernelWriteln(w, path, <<"command not found: ", name>>),
             returned |-> << >>]

\* Kernel.handleBuiltins
handleBuiltins(w, path, name, args) ==
    CASE name = "help" ->
            [w |-> KernelWriteln(w, path,
                       <<"Builtins: help, clear. Commands: ", "cat, cd, echo, ed, git">>),
             returned |-> <<0>>]
      [] name = "clear" ->
            [w |-> [w EXCEPT !.term = Empty], returned |-> <<0>>]
      [] name = "" ->
            [w |-> w, returned |-> <<0>>]
      [] OTHER ->
            [w |-> KernelWriteln(w, path, <<"command not found: ", name>>),
             returned |-> <<127>>]

\* the git command of the registry (commands/list.js line 17): its run
\* awaits the network and rejects with an error
GitRun(w, path, args, stdin) ==
    [w |-> w, returned |-> << >>, thrown |-> <<"<message>">>]

\* sys/cmd/ed.js lines 20-24, what run does when it is called: without
\* exactly one argument it writes the usage and resolves; with one it
\* awaits readFile, and the editor does the rest (EdOpenStep onwards)
EdRun(w, path, args, stdin) ==
    IF Len(args) # 1
    THEN [w |-> KernelWriteln(w, path, <<"Usage: ed <filename>">>),
          returned |-> << >>]
    ELSE [w |-> w, returned |-> << >>]

\* builtin.run awaits before it is done (cd awaits stat, cat awaits
\* readFile for its file arguments, git the network, ed readFile and then
\* the user); every other command body is synchronous
Awaits(name, args, stdin) ==
    \/ name = "cd"
    \/ name = "git"
    \/ name = "cat" /\ stdin = Null /\ Len(args) > 0
    \/ name = "ed" /\ Len(args) = 1

\* builtin.run(this.kernel, expandedArgs, stdin)
BuiltinRun(w, path, name, args, stdin) ==
    CASE name = "echo" -> EchoRun(w, path, args, stdin)
      [] name = "cat" -> CatRun(w, path, args, stdin)
      [] name = "cd" -> CdRun(w, path, args, stdin)
      [] name = "git" -> GitRun(w, path, args, stdin)
      [] name = "ed" -> EdRun(w, path, args, stdin)

\* the error the promise of a run rejected with: << >> when it resolved
Thrown(done) ==
    IF "thrown" \in DOMAIN done THEN done.thrown ELSE << >>

\* Settled that reports the error and keeps the status 0
SettledWithoutStatus(done, path, name) ==
    IF Thrown(done) = << >> THEN [w |-> done.w, returned |-> done.returned]
    ELSE [w |-> KernelWriteln(
                    Log(done.w, Event("throw", path, done.w.kernel.cwd,
                                      Thrown(done), 0)),
                    path, <<"-qrx: ", name, ": ">> \o Thrown(done)),
          returned |-> <<0>>]

\* lines 207-218: await commandPromise has settled; a rejection is caught,
\* reported through kernel.writeln and turned into status 1
Settled(done, path, name) ==
    IF Thrown(done) = << >> THEN [w |-> done.w, returned |-> done.returned]
    ELSE [w |-> KernelWriteln(
                    Log(done.w, Event("throw", path, done.w.kernel.cwd,
                                      Thrown(done), 0)),
                    path, <<"-qrx: ", name, ": ">> \o Thrown(done)),
          returned |-> <<1>>]

\* typeof commandResult === 'number' ? commandResult : 0
StatusOf(returned) ==
    IF returned # << >> THEN returned[1] ELSE 0

-----------------------------------------------------------------------------
(***************************************************************************)
(* AstExecutor.executeNode, as steps of the call on top of the stack.      *)
(***************************************************************************)
\* the node of a call executeNode(null) or executeNode(undefined)
Absent == [type |-> "absent"]

\* line 21 on an absent node: node.background is a TypeError, so the promise
\* of the call rejects.  No caller inside executeNode catches the rejection
\* of a child call: it reaches the catch of runCommand
Reject(w, path) ==
    Log([w EXCEPT !.task.stack = << >>, !.task.ret = NoRet,
                  !.task.pc = "catch"],
        Event("reject", path, w.kernel.cwd, <<"<TypeError>">>, 0))

\* this.executeNode(node, stdin): a new call on top of the stack
Call(w, node, path, stdin) ==
    LET w1 == Log(w, Event("enter", path, w.kernel.cwd, stdin, 0)) IN
    IF node = Absent THEN Reject(w1, path)
    ELSE [w1 EXCEPT !.task.stack = Append(@, Frame(node, path, stdin)),
                    !.task.ret = NoRet]

\* Return without line 167
ReturnStatusUnset(w, result) ==
    LET frame == Top(w) IN
    Log([w EXCEPT !.task.stack = SubSeq(@, 1, Len(@) - 1),
                  !.task.ret = <<result>>],
        Event("exit", frame.path, w.kernel.cwd, result.stdout, result.status))

\* lines 166-168: set lastExitStatus and return result to the caller
Return(w, result) ==
    LET frame == Top(w) IN
    Log([w EXCEPT !.kernel.lastExitStatus = result.status,
                  !.task.stack = SubSeq(@, 1, Len(@) - 1),
                  !.task.ret = <<result>>],
        Event("exit", frame.path, w.kernel.cwd, result.stdout, result.status))

\* RedirectContent with the new text put before the existing content
RedirectContentPrepended(mode, existing, stdout) ==
    IF mode = "append" THEN stdout \o existing ELSE stdout

\* the text writeFile is called with (lines 153-158)
RedirectContent(mode, existing, stdout) ==
    IF mode = "append" THEN existing \o stdout ELSE stdout

\* RedirectDone without line 159
RedirectDoneKeepsOutput(result) ==
    result

\* the result after a writeFile that resolved (line 159)
RedirectDone(result) ==
    [result EXCEPT !.stdout = Empty]

\* the result after a writeFile that rejected (lines 160-163)
RedirectFailed(result) ==
    [result EXCEPT !.status = 1]

\* lines 149-168, entered with the variant's result: without a redirection
\* the call returns; with one it resolves the path and awaits storage
AfterSwitch(w, result) ==
    LET frame == Top(w)
        node == frame.node
        w1 == Log(w, Event("result", frame.path, w.kernel.cwd,
                           result.stdout, result.status))
    IN  IF ~HasRedirection(node) THEN Return(w1, result)
        ELSE LET path == resolvePath(node.redirection.file, w.kernel.cwd) IN
             SetTop(w1, [frame EXCEPT
                 !.result = result,
                 !.file = path,
                 !.content = RedirectContent("overwrite", Empty, result.stdout),
                 !.pc = IF node.redirection.mode = "append"
                        THEN "redirect_read" ELSE "redirect_write"])

\* line 154: readFile(path).catch(() => '') has settled; writeFile is called
RedirectReadStep(w) ==
    LET frame == Top(w)
        existing == IF CanRead(w.pfs, frame.file)
                    THEN w.pfs.files[frame.file] ELSE Empty
    IN  SetTop(w, [frame EXCEPT
            !.content = RedirectContent("append", existing, frame.result.stdout),
            !.pc = "redirect_write"])

\* RedirectWriteStep without the await of writeFile: the call returns and the
\* write lands afterwards
RedirectWriteNotAwaited(w) ==
    LET frame == Top(w) IN
    IF CanWrite(w.pfs, frame.file)
    THEN Log([Return(w, RedirectDone(frame.result))
                 EXCEPT !.pfs = writeFile(w.pfs, frame.file, frame.content)],
             Event("write", frame.path, frame.file, frame.content, 0))
    ELSE Return(w, RedirectFailed(frame.result))

\* lines 155-163: writeFile has settled
RedirectWriteStep(w) ==
    LET frame == Top(w) IN
    IF CanWrite(w.pfs, frame.file)
    THEN Return(Log([w EXCEPT !.pfs = writeFile(w.pfs, frame.file, frame.content)],
                    Event("write", frame.path, frame.file, frame.content, 0)),
                RedirectDone(frame.result))
    ELSE Return(KernelWriteln(
                    Log(w, Event("fail", frame.path, frame.file, frame.content, 0)),
                    frame.path,
                    <<"-qrx: ">> \o WordText(frame.node.redirection.file)
                    \o <<": ">> \o WriteErrorMessage(w.pfs, frame.file)),
                RedirectFailed(frame.result))

(***************************************************************************)
(* The switch on node.type (lines 26-147).  Each Exec operator is what the *)
(* call does on entry; each After operator is what it does when the call   *)
(* it awaited has returned ret.                                            *)
(***************************************************************************)
\* the error case with the status 1 of a failed command
ExecErrorAsFailure(w) ==
    AfterSwitch(w, [stdout |-> <<"-qrx: parse error: ", Top(w).node.message, "\n">>,
                    status |-> 1])

\* case 'error' (lines 27-29)
ExecError(w) ==
    AfterSwitch(w, [stdout |-> <<"-qrx: parse error: ", Top(w).node.message, "\n">>,
                    status |-> 2])

\* case 'logical_and' / 'logical_or', first line (32, 46)
ExecLogical(w) ==
    LET frame == Top(w) IN
    Call(SetTop(w, [frame EXCEPT !.pc = "left"]),
         frame.node.left, frame.path \o <<1>>, frame.stdin)

\* RunsRight without the short circuit of &&
RunsRightAlways(type, leftResult) ==
    IF type = "logical_and" THEN TRUE
    ELSE leftResult.status # 0

\* RunsRight with the test of && used for || too
RunsRightAsAnd(type, leftResult) ==
    leftResult.status = 0

\* whether the right operand runs (lines 33, 47)
RunsRight(type, leftResult) ==
    IF type = "logical_and" THEN leftResult.status = 0
    ELSE leftResult.status # 0

\* lines 35-38, 49-52
LogicalResult(leftResult, rightResult) ==
    [stdout |-> leftResult.stdout \o rightResult.stdout,
     status |-> rightResult.status]

\* lines 33-41, 47-55 once left has returned
AfterLeft(w, leftResult) ==
    LET frame == Top(w) IN
    IF RunsRight(frame.node.type, leftResult)
    THEN Call(SetTop(w, [frame EXCEPT !.pc = "right", !.leftResult = leftResult]),
              frame.node.right, frame.path \o <<2>>, frame.stdin)
    ELSE AfterSwitch(w, leftResult)

AfterRight(w, rightResult) ==
    AfterSwitch(w, LogicalResult(Top(w).leftResult, rightResult))

\* case 'pipeline' (line 60)
ExecPipeline(w) ==
    LET frame == Top(w) IN
    Call(SetTop(w, [frame EXCEPT !.pc = "from"]),
         frame.node.from, frame.path \o <<1>>, frame.stdin)

\* the stdin of the `to` stage (line 61)
PipeStdin(leftResult) ==
    leftResult.stdout

\* PipelineResult with pipefail: a failed from stage fails the pipeline
PipelineResultPipefail(leftResult, toResult) ==
    IF leftResult.status # 0
    THEN [toResult EXCEPT !.status = leftResult.status]
    ELSE toResult

\* the result of a pipeline (line 61)
PipelineResult(leftResult, toResult) ==
    toResult

AfterFrom(w, leftResult) ==
    LET frame == Top(w) IN
    Call(SetTop(w, [frame EXCEPT !.pc = "to", !.leftResult = leftResult]),
         frame.node.to, frame.path \o <<2>>, PipeStdin(leftResult))

AfterTo(w, toResult) ==
    AfterSwitch(w, PipelineResult(Top(w).leftResult, toResult))

\* case 'group' (lines 66-68): an empty list falls through to line 73
ExecGroup(w) ==
    LET frame == Top(w) IN
    IF Len(frame.node.commands) = 0 THEN AfterSwitch(w, NoResult)
    ELSE Call(SetTop(w, [frame EXCEPT !.pc = "group", !.i = 1]),
              frame.node.commands[1], frame.path \o <<1>>, frame.stdin)

\* GroupContinues with the break of the if branches
GroupContinuesUntilFailure(commands, i, subResult) ==
    subResult.status = 0 /\ i < Len(commands)

\* whether the for loop of a group goes on after child i (line 68)
GroupContinues(commands, i, subResult) ==
    i < Len(commands)

\* line 73
GroupResult(groupOutputBuffer, groupStatus) ==
    [stdout |-> Join(groupOutputBuffer, Empty), status |-> groupStatus]

\* lines 69-73 once child i has returned
AfterGroupChild(w, subResult) ==
    LET frame == Top(w)
        groupOutputBuffer == Append(frame.buffer, subResult.stdout)
    IN  IF GroupContinues(frame.node.commands, frame.i, subResult)
        THEN Call(SetTop(w, [frame EXCEPT !.buffer = groupOutputBuffer,
                                          !.i = frame.i + 1]),
                  frame.node.commands[frame.i + 1],
                  frame.path \o <<frame.i + 1>>, frame.stdin)
        ELSE AfterSwitch(w, GroupResult(groupOutputBuffer, subResult.status))

\* case 'if_statement' (line 81)
ExecIf(w) ==
    LET frame == Top(w) IN
    Call(SetTop(w, [frame EXCEPT !.pc = "condition"]),
         frame.node.condition, frame.path \o <<1>>, frame.stdin)

\* the branch lines 85 and 93 select: 2 for then_branch, 3 for else_branch,
\* 0 for none
SelectBranch(node, conditionResult) ==
    IF conditionResult.status = 0 THEN 2
    ELSE IF node.else_branch # << >> THEN 3
    ELSE 0

BranchOf(node, b) ==
    IF b = 2 THEN node.then_branch ELSE node.else_branch

\* InitialBranchResult seeded with the condition's status
BranchResultFromCondition(conditionResult) ==
    [stdout |-> Empty, status |-> conditionResult.status]

\* InitialBranchResult seeded with the condition's stdout
BranchResultWithConditionOutput(conditionResult) ==
    [stdout |-> conditionResult.stdout, status |-> 0]

\* line 82: branchResult before a branch is chosen
InitialBranchResult(conditionResult) ==
    [stdout |-> Empty, status |-> 0]

\* lines 82-101 once the condition has returned
AfterCondition(w, conditionResult) ==
    LET frame == Top(w)
        b == SelectBranch(frame.node, conditionResult)
        branchResult == InitialBranchResult(conditionResult)
    IN  IF b = 0 \/ BranchOf(frame.node, b) = << >>
        THEN AfterSwitch(w, branchResult)
        ELSE Call(SetTop(w, [frame EXCEPT !.pc = IF b = 2 THEN "then" ELSE "else",
                                          !.i = 1, !.result = branchResult]),
                  BranchOf(frame.node, b)[1], frame.path \o <<b, 1>>, frame.stdin)

\* lines 89-90, 97-98
BranchAccumulate(branchResult, subResult) ==
    [stdout |-> branchResult.stdout \o subResult.stdout,
     status |-> subResult.status]

\* BranchContinues without the break on a failing statement
BranchContinuesAfterFailure(branch, i, subResult) ==
    i < Len(branch)

\* whether the for loop of a branch goes on after statement i (lines 87, 91)
BranchContinues(branch, i, subResult) ==
    subResult.status = 0 /\ i < Len(branch)

\* lines 88-91, 96-99 once statement i of the branch has returned
AfterBranchChild(w, subResult) ==
    LET frame == Top(w)
        b == IF frame.pc = "then" THEN 2 ELSE 3
        branch == BranchOf(frame.node, b)
        branchResult == BranchAccumulate(frame.result, subResult)
    IN  IF BranchContinues(branch, frame.i, subResult)
        THEN Call(SetTop(w, [frame EXCEPT !.result = branchResult,
                                          !.i = frame.i + 1]),
                  branch[frame.i + 1], frame.path \o <<b, frame.i + 1>>,
                  frame.stdin)
        ELSE AfterSwitch(w, branchResult)

(***************************************************************************)
(* case 'command' (lines 107-146) with executeSingleCommand (177-227).     *)
(***************************************************************************)
\* line 21
IsBackground(node) ==
    node.background /\ ~HasRedirection(node)

\* lines 113-119: the sink the command's writes are given
CaptureSink(node, depth, owner) ==
    IF IsBackground(node) THEN NoSink ELSE BufferSink(depth, owner)

\* the implementation executeSingleCommand picks for a name (lines 184-226):
\* none for the empty name, the assignment, the registered command's run,
\* or Kernel.handleBuiltins
Resolution(name, args) ==
    IF name = "" THEN "none"
    ELSE IF IsAssignment(name, args) THEN "assignment"
    ELSE IF name \in Registered THEN "registered"
    ELSE "builtins"

\* executeSingleCommand up to its first await: what runs synchronously when
\* executeNode calls it at line 124
SingleCommandSync(w, path, name, args, stdin) ==
    LET kind == Resolution(name, args)
        w1 == Log(w, Event("dispatch", path, w.kernel.cwd, <<kind>>, 0))
    IN  CASE kind = "none" ->
                [w |-> IF stdin # Null THEN KernelWrite(w1, path, stdin) ELSE w1,
                 returned |-> <<0>>]
          [] kind = "assignment" ->
                [w |-> [w1 EXCEPT !.kernel.env = Assign(@, name)],
                 returned |-> <<0>>]
          [] kind = "registered" ->
                IF Awaits(name, args, stdin)
                THEN [w |-> w1, returned |-> << >>]
                ELSE BuiltinRun(w1, path, name, args, stdin)
          [] kind = "builtins" ->
                handleBuiltins(w1, path, name, args)

\* lines 108-125: swap the sinks, call executeSingleCommand, await it
ExecCommand(w) ==
    LET frame == Top(w)
        node == frame.node
        expandedArgs == ExpandArgs(node.args, w.kernel.lastExitStatus)
        w1 == Log([w EXCEPT !.kernel.write =
                                CaptureSink(node, Depth(w),
                                            <<w.task.line>> \o frame.path),
                            !.kernel.currentProcess =
                                PromiseOf(<<w.task.line>> \o frame.path)],
                  Event("run", frame.path, w.kernel.cwd,
                        Join(<<<<node.name>>>> \o WordTexts(expandedArgs), <<" ">>),
                        w.kernel.lastExitStatus))
        w2 == SetTop(w1, [frame EXCEPT !.pc = "command",
                                       !.originalWrite = w.kernel.write,
                                       !.args = expandedArgs])
        done == SingleCommandSync(w2, frame.path, node.name, expandedArgs,
                                  frame.stdin)
    IN  [done.w EXCEPT !.task.stack[Depth(w)].commandResult = done.returned]

\* line 144
CommandOutput(buffer) ==
    Join(buffer, Empty)

\* AfterCommand without lines 139-140: the sinks stay those of the command
AfterCommandKeepsSinks(w) ==
    LET frame == Top(w)
        node == frame.node
        done == IF node.name \in Registered
                   /\ Awaits(node.name, frame.args, frame.stdin)
                THEN Settled(BuiltinRun(w, frame.path, node.name, frame.args,
                                        frame.stdin),
                             frame.path, node.name)
                ELSE [w |-> w, returned |-> frame.commandResult]
        w1 == [done.w EXCEPT !.kernel.currentProcess = NoProcess]
    IN  AfterSwitch(w1, [stdout |-> CommandOutput(Top(done.w).buffer),
                         status |-> StatusOf(done.returned)])

\* lines 125-146 once the command's promise has settled: a command that
\* awaited runs its remaining body first; then the status is taken, the
\* sinks are restored and the process slot is cleared
AfterCommand(w) ==
    LET frame == Top(w)
        node == frame.node
        done == IF node.name \in Registered
                   /\ Awaits(node.name, frame.args, frame.stdin)
                THEN Settled(BuiltinRun(w, frame.path, node.name, frame.args,
                                        frame.stdin),
                             frame.path, node.name)
                ELSE [w |-> w, returned |-> frame.commandResult]
        w1 == [done.w EXCEPT !.kernel.write = frame.originalWrite,
                             !.kernel.currentProcess = NoProcess]
    IN  AfterSwitch(w1, [stdout |-> CommandOutput(Top(done.w).buffer),
                         status |-> StatusOf(done.returned)])

-----------------------------------------------------------------------------
(***************************************************************************)
(* Kernel.runCommand (kernel.js 142-157), entered from the Enter key       *)
(* handler, and Kernel.prompt.                                             *)
(***************************************************************************)
PromptText(cwd) ==
    <<"\r", "\n", "user@host:">> \o WordText(cwd) \o <<"$ ">>

\* Kernel.prompt (kernel.js 123-128)
prompt(w) ==
    [w EXCEPT !.kernel.commandBuffer = Empty,
              !.kernel.commandInProgress = FALSE,
              !.term = @ \o PromptText(w.kernel.cwd)]

\* a driver that writes no statement's stdout
DriverWritesNothing(node, result) ==
    FALSE

\* line 148: whether the driver writes a statement's stdout
DriverWrites(node, result) ==
    result.stdout # Empty /\ ~HasRedirection(node)

\* enter.run with a non-blank buffer, then runCommand lines 143-144; the
\* line is given by the statement list parse returns for it
SubmitStep(w, line) ==
    [w EXCEPT !.term = @ \o <<"\r", "\n">>,
              !.kernel.history = Append(@, line),
              !.kernel.commandInProgress = TRUE,
              !.task = [IdleTask EXCEPT !.pc = "loop", !.ast = line, !.i = 1,
                                        !.pfs0 = w.pfs]]

\* line 147: the call of executeNode for statement i
RunCallStep(w) ==
    Call([w EXCEPT !.task.pc = "await"], w.task.ast[w.task.i], <<w.task.i>>, Null)

\* lines 147-148 once executeNode has returned, and the loop's step
RunResumeStep(w) ==
    LET node == w.task.ast[w.task.i]
        result == w.task.ret[1]
        w1 == [w EXCEPT !.task.pc = "loop", !.task.i = @ + 1, !.task.ret = NoRet]
    IN  IF DriverWrites(node, result)
        THEN KernelWrite(w1, <<w.task.i>>, result.stdout)
        ELSE w1

\* a finally block that does not reach prompt
RunFinallyWithoutPrompt(w) ==
    [w EXCEPT !.task.pc = "idle"]

\* lines 153-156
RunFinallyStep(w) ==
    prompt([w EXCEPT !.task.pc = "idle", !.kernel.commandInProgress = FALSE])

(***************************************************************************)
(* The editor of ed (sys/cmd/ed.js).  Its command call is on top of the    *)
(* stack of the runCommand call of line owner[1], which is the running one *)
(* or the suspended one.                                                   *)
(***************************************************************************)
EditorFrame(w, owner) ==
    IF w.task.line = owner[1] THEN Top(w)
    ELSE w.task.other[1].stack[Len(w.task.other[1].stack)]

SetEditorFrame(w, owner, frame) ==
    IF w.task.line = owner[1] THEN SetTop(w, frame)
    ELSE [w EXCEPT !.task.other[1].stack[Len(w.task.other[1].stack)] = frame]

\* ed.js lines 26-33 and 73-77, 180-181: readFile has settled (a file that
\* cannot be read gives the empty text), the editor is shown with the
\* content and the cancel hook is put in kernel.currentProcess
EdOpenStep(w) ==
    LET frame == Top(w)
        filePath == resolvePath(frame.args[1], w.kernel.cwd)
        initialContent == IF CanRead(w.pfs, filePath)
                          THEN w.pfs.files[filePath] ELSE Empty
    IN  [SetTop(w, [frame EXCEPT !.editor = "open", !.filePath = filePath,
                                 !.textarea = initialContent])
            EXCEPT !.kernel.currentProcess =
                       CancelHook(<<w.task.line>> \o frame.path)]

\* ed.js line 168: the user edits the text
EdInputStep(w, text) ==
    SetTop(w, [Top(w) EXCEPT !.textarea = text, !.hasChanges = TRUE])

\* ed.js lines 139-144: the editor is removed, currentProcess is cleared
\* and the promise of run resolves
cleanup(w, owner) ==
    [SetEditorFrame(w, owner,
                    [EditorFrame(w, owner) EXCEPT !.editor = "closed"])
        EXCEPT !.kernel.currentProcess = NoProcess]

\* ed.js lines 146-155: writeFile has settled; when it rejected a message
\* box is shown and the editor stays
saveFile(w, owner) ==
    LET frame == EditorFrame(w, owner) IN
    IF CanWrite(w.pfs, frame.filePath)
    THEN cleanup(Log([w EXCEPT !.pfs = writeFile(w.pfs, frame.filePath,
                                                 frame.textarea)],
                     Event("save", frame.path, frame.filePath, frame.textarea,
                           0)),
                 owner)
    ELSE w

\* ed.js lines 157-166: with unsaved changes the user is asked first
cancelEdit(w, owner) ==
    LET frame == EditorFrame(w, owner) IN
    IF frame.hasChanges
    THEN SetEditorFrame(w, owner, [frame EXCEPT !.editor = "modal"])
    ELSE cleanup(w, owner)

\* ed.js lines 111-127 and 159-162: the answer to "Discard them?"
EdAnswerStep(w, userIsSure) ==
    LET owner == <<w.task.line>> \o Top(w).path IN
    IF userIsSure THEN cleanup(w, owner)
    ELSE SetTop(w, [Top(w) EXCEPT !.editor = "open"])

\* Kernel.cancelCurrentProcess (kernel.js 133-140), called by the Ctrl+C
\* handler whether or not a command is in progress: the cancel hook is
\* called when currentProcess has one; when it is null or the promise of
\* executeSingleCommand the else branch runs, where this.writeln is
\* whatever kernel.writeln is at the moment
cancelCurrentProcess(w) ==
    IF w.kernel.currentProcess.kind = "cancel"
    THEN cancelEdit(w, w.kernel.currentProcess.owner)
    ELSE prompt(KernelWriteln(w, IF w.task.stack = << >> THEN << >>
                                 ELSE Top(w).path,
                              <<"^C">>))

\* the call of runCommand t is suspended at an await of storage or of the
\* network: only then does the event loop take a key or another settlement
Suspended(t) ==
    /\ t.stack # << >>
    /\ t.ret = NoRet
    /\ LET frame == t.stack[Len(t.stack)] IN
          \/ frame.pc \in {"redirect_read", "redirect_write"}
          \/ /\ frame.pc = "command"
             /\ Resolution(frame.node.name, frame.args) = "registered"
             /\ Awaits(frame.node.name, frame.args, frame.stdin)

\* enter.run and runCommand lines 143-144 while the call of runCommand for
\* an earlier line is suspended
SubmitSecondStep(w, line) ==
    [SubmitStep(w, line) EXCEPT
        !.task.line = w.task.line + 1,
        !.task.other = <<[w.task EXCEPT !.other = << >>]>>]

\* the await of the suspended call settles: it runs, the other one waits
SwitchStep(w) ==
    [w EXCEPT !.task = [w.task.other[1] EXCEPT
                           !.other = <<[w.task EXCEPT !.other = << >>]>>]]

\* lines 150-156: executeNode has rejected; the catch writes the error in
\* red to the terminal, and the finally block follows
RunCatchStep(w) ==
    LET error == w.task.log[Len(w.task.log)] IN
    RunFinallyStep(
        KernelWriteln(w, error.path, <<"<red>Error: ">> \o error.text))

-----------------------------------------------------------------------------
(***************************************************************************)
(* The lines submitted.  A line is the statement list parse gives for it   *)
(* (grammar rules main .. command).  "f" is a file in the working          *)
(* directory, "d" an existing directory, "nd" a directory that does not    *)
(* exist, so a write to nd/f is rejected.                                  *)
(***************************************************************************)
SeqsUpTo(S, n) ==
    UNION {[1..k -> S] : k \in 1..n}

FileF == <<"f">>

FileNoDir == <<"nd", "f">>

DirD == <<"d">>

EchoA == Command("echo", <<<<"a">>>>)

EchoB == Command("echo", <<<<"b">>>>)

EchoStatus == Command("echo", <<<<"$?">>>>)

\* echo $? d/$?
EchoStatusIn == Command("echo", <<<<"$?">>, <<"d", "$?">>>>)

\* echo $X
EchoX == Command("echo", <<<<"$X">>>>)

Cat == Command("cat", << >>)

CatF == Command("cat", <<FileF>>)

NotFound == Command("zzz", << >>)

CdD == Command("cd", <<DirD>>)

Git == Command("git", << >>)

Ed == Command("ed", <<FileF>>)

\* what the user can type into the editor
EdTexts == {<<"y", "\n">>}

\* a command, or the command with one of the redirections > f, >> f, > nd/f
Redirected(S) ==
    S \cup {Redirect(n, "overwrite", FileF) : n \in S}
      \cup {Redirect(n, "append", FileF) : n \in S}
      \cup {Redirect(n, "overwrite", FileNoDir) : n \in S}

Leaf == Redirected({EchoA, EchoB, Cat, NotFound})

\* the second operand of a pipeline, && or ||
Second ==
    {Cat, EchoB, NotFound, Redirect(Cat, "append", FileF),
     Redirect(EchoB, "overwrite", FileNoDir)}

BlockLeaf ==
    {EchoA, NotFound, Redirect(EchoB, "append", FileF),
     Redirect(EchoA, "overwrite", FileNoDir)}

Blocks == SeqsUpTo(BlockLeaf, MaxBlock)

Conditions == {EchoA, NotFound, Redirect(EchoA, "overwrite", FileNoDir)}

ElseBlocks == {<< >>, <<EchoB>>, <<NotFound, EchoB>>}

Pipelines == {Pipeline(x, y) : x \in Leaf, y \in Second}

Logicals ==
    {LogicalAnd(x, y) : x \in Leaf, y \in Second}
    \cup {LogicalOr(x, y) : x \in Leaf, y \in Second}

Groups == Redirected({Group(c) : c \in Blocks})

Ifs == {IfStatement(c, t, e) : c \in Conditions, t \in Blocks, e \in ElseBlocks}

\* statements two levels deep
Nested ==
    {LogicalOr(LogicalAnd(x, y), z) : x, y, z \in {EchoA, NotFound}}
    \cup {LogicalAnd(LogicalOr(x, y), z) : x, y, z \in {EchoA, NotFound}}
    \cup {Pipeline(Pipeline(x, Cat), y) : x \in {EchoA, NotFound}, y \in Second}
    \cup {Pipeline(Group(<<x, EchoB>>), y) :
              x \in {EchoA, NotFound}, y \in {Cat, Redirect(Cat, "overwrite", FileF)}}
    \cup {Group(<<IfStatement(c, <<EchoA>>, e), EchoB>>) :
              c \in Conditions, e \in {<< >>, <<EchoB>>}}
    \cup {IfStatement(Pipeline(x, y), <<EchoA>>, <<EchoB>>) :
              x \in {EchoA, NotFound}, y \in {Cat, NotFound}}
    \cup {Redirect(Group(<<Group(<<x, y>>), EchoB>>), "overwrite", FileF) :
              x, y \in {EchoA, Redirect(EchoB, "overwrite", FileNoDir)}}
    \cup {Background(EchoA), Background(Redirect(EchoA, "overwrite", FileF)),
          Command("X=1", << >>), Command("help", << >>), ErrorNode("Syntax error")}
    \cup {LogicalOr(NotFound, EchoStatusIn)}
    \cup {Background(NotFound)}
    \cup {Group(<<Command("X=1", << >>), Command("_y=2", << >>)>>),
          Command("X=1", <<<<"a">>>>), Command("9=1", << >>)}

Statements == Leaf \cup Pipelines \cup Logicals \cup Groups \cup Ifs \cup Nested

\* the statements of lines with more than one
SeqLeaf ==
    {Redirect(EchoA, "overwrite", FileF), Redirect(EchoB, "append", FileF),
     Redirect(EchoA, "append", FileNoDir), NotFound, EchoStatus, CdD, CatF}

\* lines with a statement that is absent: parse gives no such line
AbsentLines == {<<Absent>>, <<EchoA, Absent, EchoB>>}

\* the lines typed while an earlier line is suspended
SecondLines == {<<EchoB>>, <<CatF>>}

\* lines with a background statement (grammar rule command_unit gives the
\* flag to the node of the whole logical_sequence)
BackgroundLines ==
    {<<Background(Pipeline(EchoA, Cat))>>,
     <<Background(LogicalAnd(EchoA, EchoB))>>,
     <<Background(Group(<<EchoA, EchoB>>))>>,
     <<Background(IfStatement(EchoA, <<EchoB>>, << >>))>>,
     <<Background(Pipeline(EchoA, Redirect(Cat, "overwrite", FileF)))>>,
     <<Background(Redirect(Group(<<EchoA, EchoB>>), "overwrite", FileF))>>,
     <<Background(CatF), EchoB>>}

Lines ==
    {<<n>> : n \in Statements}
    \cup BackgroundLines
    \cup (SeqsUpTo(SeqLeaf, MaxStmts) \ SeqsUpTo(SeqLeaf, 1))
    \cup {<<Git, EchoStatus>>, <<Group(<<EchoA, Git>>)>>,
          <<Pipeline(Git, EchoB)>>}
    \cup {<<Ed>>, <<Command("ed", << >>)>>, <<Background(Ed)>>}
    \cup {<<EchoX>>, <<Command("X=1", << >>), EchoX>>}
    \cup {<<Git>>, <<CdD>>, <<CatF>>, <<Redirect(CatF, "append", FileF)>>}

\* storage when the session starts: LightningFS persists between sessions.
\* Either nothing but the directory d is there, or a previous session has
\* left the file f and a command file echo.js under /sys/cmd
InitialStores ==
    {[files |-> << >>, dirs |-> {Root, <<"", "d">>}],
     [files |-> (<<"", "f">> :> <<"x", "\n">>)
                @@ (<<"", "sys", "cmd", "echo.js">> :> <<"export default">>),
      dirs |-> {Root, <<"", "d">>, <<"", "sys">>, <<"", "sys", "cmd">>}]}

-----------------------------------------------------------------------------
Init ==
    /\ kernel = [cwd |-> Root, env |-> << >>, history |-> << >>,
                 commandBuffer |-> Empty, commandInProgress |-> FALSE,
                 lastExitStatus |-> 0, currentProcess |-> NoProcess,
                 write |-> TermSink]
    /\ pfs \in InitialStores
    /\ term = Empty
    /\ task = [IdleTask EXCEPT !.pfs0 = pfs]

Running == task.stack # << >> /\ task.ret = NoRet

Returned == task.stack # << >> /\ task.ret # NoRet

Submit ==
    /\ task.pc = "idle"
    /\ ~kernel.commandInProgress
    /\ kernel.history = << >>
    /\ \E line \in Lines : Commit(SubmitStep(World, line))

RunCall ==
    /\ task.pc = "loop"
    /\ task.i <= Len(task.ast)
    /\ Commit(RunCallStep(World))

RunResume ==
    /\ task.pc = "await"
    /\ task.stack = << >>
    /\ task.ret # NoRet
    /\ Commit(RunResumeStep(World))

RunCatch ==
    /\ task.pc = "catch"
    /\ Commit(RunCatchStep(World))

SubmitAbsent ==
    /\ task.pc = "idle"
    /\ ~kernel.commandInProgress
    /\ kernel.history = << >>
    /\ \E line \in AbsentLines : Commit(SubmitStep(World, line))

\* Ctrl+C while a command is in progress
CtrlC ==
    /\ kernel.commandInProgress
    /\ Suspended(task)
    /\ Commit(cancelCurrentProcess(World))

\* Enter on a second line: the input handler takes keys again once prompt
\* has cleared commandInProgress
SubmitSecond ==
    /\ ~kernel.commandInProgress
    /\ Suspended(task)
    /\ task.other = << >>
    /\ \E line \in SecondLines : Commit(SubmitSecondStep(World, line))

Switch ==
    /\ task.other # << >>
    /\ Suspended(task) \/ task.pc = "idle"
    /\ Suspended(task.other[1])
    /\ Commit(SwitchStep(World))

RunFinally ==
    /\ task.pc = "loop"
    /\ task.i > Len(task.ast)
    /\ Commit(RunFinallyStep(World))

\* the call on top of the stack is at the switch, on a node of this type
Starting(type) ==
    /\ Running
    /\ Top(World).pc = "start"
    /\ Top(World).node.type = type

\* the call on top of the stack awaited, at pc, the call that has returned
Awaited(pc) ==
    /\ Returned
    /\ Top(World).pc = pc

\* the world as the resumed caller sees it, the returned value taken
Taken == [World EXCEPT !.task.ret = NoRet]

StartError ==
    /\ Starting("error")
    /\ Commit(ExecError(World))

StartLogicalAnd ==
    /\ Starting("logical_and")
    /\ Commit(ExecLogical(World))

StartLogicalOr ==
    /\ Starting("logical_or")
    /\ Commit(ExecLogical(World))

StartPipeline ==
    /\ Starting("pipeline")
    /\ Commit(ExecPipeline(World))

StartGroup ==
    /\ Starting("group")
    /\ Commit(ExecGroup(World))

StartIf ==
    /\ Starting("if_statement")
    /\ Commit(ExecIf(World))

StartCommand ==
    /\ Starting("command")
    /\ Commit(ExecCommand(World))

LeftReturns ==
    /\ Awaited("left")
    /\ Commit(AfterLeft(Taken, task.ret[1]))

RightReturns ==
    /\ Awaited("right")
    /\ Commit(AfterRight(Taken, task.ret[1]))

FromReturns ==
    /\ Awaited("from")
    /\ Commit(AfterFrom(Taken, task.ret[1]))

ToReturns ==
    /\ Awaited("to")
    /\ Commit(AfterTo(Taken, task.ret[1]))

GroupChildReturns ==
    /\ Awaited("group")
    /\ Commit(AfterGroupChild(Taken, task.ret[1]))

ConditionReturns ==
    /\ Awaited("condition")
    /\ Commit(AfterCondition(Taken, task.ret[1]))

ThenChildReturns ==
    /\ Awaited("then")
    /\ Commit(AfterBranchChild(Taken, task.ret[1]))

ElseChildReturns ==
    /\ Awaited("else")
    /\ Commit(AfterBranchChild(Taken, task.ret[1]))

\* the editor of the command call on top of the stack is in this state
Editing(state) ==
    /\ Running
    /\ Top(World).pc = "command"
    /\ Resolution(Top(World).node.name, Top(World).args) = "registered"
    /\ Top(World).node.name = "ed"
    /\ Len(Top(World).args) = 1
    /\ Top(World).editor = state

EdOpens ==
    /\ Editing("none")
    /\ Commit(EdOpenStep(World))

EdInput ==
    /\ Editing("open")
    /\ ~Top(World).hasChanges
    /\ \E text \in EdTexts : Commit(EdInputStep(World, text))

\* the Save button or Ctrl+S in the editor
EdSave ==
    /\ Editing("open")
    /\ Commit(saveFile(World, <<task.line>> \o Top(World).path))

\* the Cancel button or Ctrl+C in the editor
EdCancel ==
    /\ Editing("open")
    /\ Commit(cancelEdit(World, <<task.line>> \o Top(World).path))

EdAnswer ==
    /\ Editing("modal")
    /\ \E userIsSure \in BOOLEAN : Commit(EdAnswerStep(World, userIsSure))

\* await commandPromise settles: for ed, once the editor is closed
CommandSettles ==
    /\ Running
    /\ Top(World).pc = "command"
    /\ ~Editing("none") /\ ~Editing("open") /\ ~Editing("modal")
    /\ Commit(AfterCommand(World))

RedirectRead ==
    /\ Running
    /\ Top(World).pc = "redirect_read"
    /\ Commit(RedirectReadStep(World))

RedirectWrite ==
    /\ Running
    /\ Top(World).pc = "redirect_write"
    /\ Commit(RedirectWriteStep(World))

Next ==
    \/ Submit
    \/ RunCall
    \/ RunResume
    \/ RunFinally
    \/ StartError
    \/ StartLogicalAnd
    \/ StartLogicalOr
    \/ StartPipeline
    \/ StartGroup
    \/ StartIf
    \/ StartCommand
    \/ LeftReturns
    \/ RightReturns
    \/ FromReturns
    \/ ToReturns
    \/ GroupChildReturns
    \/ ConditionReturns
    \/ ThenChildReturns
    \/ ElseChildReturns
    \/ CommandSettles
    \/ RedirectRead
    \/ RedirectWrite
    \/ EdOpens
    \/ EdInput
    \/ EdSave
    \/ EdCancel
    \/ EdAnswer

Spec == Init /\ [][Next]_vars

\* the executor called on the lines of Spec and on lines with an absent
\* statement
NextAbsent ==
    \/ Next
    \/ SubmitAbsent
    \/ RunCatch

SpecAbsent == Init /\ [][NextAbsent]_vars

\* the session with Ctrl+C and a second line typed while the first is
\* suspended
NextOverlap ==
    \/ Next
    \/ CtrlC
    \/ SubmitSecond
    \/ Switch

SpecOverlap == Init /\ [][NextOverlap]_vars

-----------------------------------------------------------------------------
(***************************************************************************)
(* Reading the log of the line in flight.                                  *)
(***************************************************************************)
Indexes(ev, path) ==
    {k \in DOMAIN task.log : task.log[k].ev = ev /\ task.log[k].path = path}

Has(ev, path) == Indexes(ev, path) # {}

\* the place in the log of the event (ev, path)
At(ev, path) == CHOOSE k \in Indexes(ev, path) : TRUE

The(ev, path) == task.log[At(ev, path)]

IsPrefix(p, q) ==
    Len(p) <= Len(q) /\ SubSeq(q, 1, Len(p)) = p

\* the places in the log of what happened at the node at path p or below it
Under(p) ==
    {k \in DOMAIN task.log : IsPrefix(p, task.log[k].path)}

\* p comes before q in the program text, neither containing the other
TextuallyBefore(p, q) ==
    \E k \in 1..Len(p) :
        /\ k <= Len(q)
        /\ p[k] < q[k]
        /\ \A j \in 1..(k - 1) : p[j] = q[j]

\* the paths of the nodes executeNode was called on
Entered ==
    {task.log[k].path : k \in {j \in DOMAIN task.log : task.log[j].ev = "enter"}}

EnteredOfType(types) ==
    {p \in Entered : LineNodeAt(task.ast, p).type \in types}

NodeOf(path) == LineNodeAt(task.ast, path)

ResultOf(event) == [stdout |-> event.text, status |-> event.status]

RECURSIVE TextOf(_, _)
\* the texts of the log's events of one kind, in order, as one text
TextOf(events, ev) ==
    IF events = << >> THEN Empty
    ELSE (IF Head(events).ev = ev THEN Head(events).text ELSE Empty)
         \o TextOf(Tail(events), ev)

LineDone == task.pc = "idle" /\ task.ast # << >>

-----------------------------------------------------------------------------
(***************************************************************************)
(* C1.  Statements run strictly in program order.  Of two events of the    *)
(* log at nodes neither of which contains the other, the one at the node   *)
(* that comes first in the program text happened first; nothing happens at *)
(* or under a node before executeNode is entered for it, and nothing after *)
(* it has returned, except the driver's write of a statement's returned    *)
(* stdout; so statement i+1 is entered only after statement i has          *)
(* returned, its redirection write included.  The terminal holds the       *)
(* writes in that same order.                                              *)
(***************************************************************************)
ProgramOrder ==
    /\ \A k \in DOMAIN task.log :
          \A j \in 1..(k - 1) :
            LET a == task.log[j]
                b == task.log[k]
            IN  /\ (~IsPrefix(a.path, b.path) /\ ~IsPrefix(b.path, a.path))
                      => TextuallyBefore(a.path, b.path)
                /\ b.ev = "enter" => ~IsPrefix(b.path, a.path)
                /\ (a.ev = "exit" /\ IsPrefix(a.path, b.path))
                      => (b.ev = "term" /\ b.path = a.path /\ Len(a.path) = 1)
    /\ \A i \in 1..Len(task.ast) :
          Has("enter", <<i>>) =>
            LET entered == At("enter", <<i>>) IN
            /\ \A h \in 1..(i - 1) : Has("exit", <<h>>)
            /\ \A h \in 1..(i - 1) :
                  \A k \in Under(<<h>>) : k < entered
    /\ task.ast # << >> =>
          term = <<"\r", "\n">> \o TextOf(task.log, "term")
                 \o (IF LineDone THEN PromptText(kernel.cwd) ELSE Empty)

\* a line of several statements has run to its end: the first wrote a file,
\* a later one wrote to the terminal
ProgramOrderWitness ==
    /\ LineDone
    /\ Len(task.ast) >= 2
    /\ Has("write", <<1>>)
    /\ \E k \in DOMAIN task.log :
          task.log[k].ev = "term" /\ task.log[k].path[1] = Len(task.ast)

\* every node executeNode was entered for has its switch result once the
\* line is done
AllEvaluated ==
    LineDone => \A p \in Entered : Has("result", p) /\ Has("exit", p)

-----------------------------------------------------------------------------
(***************************************************************************)
(* C2.  A pipeline evaluates from with the inbound stdin, then to with     *)
(* from's stdout as stdin, and returns exactly to's result: to is          *)
(* evaluated whatever from's status is, and from's status is not in the    *)
(* pipeline's result.                                                      *)
(***************************************************************************)
PipelineContract ==
    /\ AllEvaluated
    /\ \A p \in EnteredOfType({"pipeline"}) :
          LET from == p \o <<1>>
              to == p \o <<2>>
          IN  /\ Has("enter", from) =>
                    The("enter", from).text = The("enter", p).text
              /\ Has("enter", to) =>
                    /\ Has("exit", from)
                    /\ At("exit", from) < At("enter", to)
                    /\ The("enter", to).text = The("exit", from).text
              /\ Has("result", p) =>
                    /\ Has("exit", to)
                    /\ ResultOf(The("result", p)) = ResultOf(The("exit", to))
              /\ Has("exit", p) =>
                    ResultOf(The("exit", p)) = ResultOf(The("exit", to))

\* a pipeline has returned status 0 although its from stage failed with output
PipelineWitness ==
    \E p \in EnteredOfType({"pipeline"}) :
        /\ Has("exit", p)
        /\ The("exit", p \o <<1>>).status # 0
        /\ The("exit", p \o <<1>>).text # Empty
        /\ The("exit", p).status = 0
        /\ The("exit", p).text = The("exit", p \o <<1>>).text

-----------------------------------------------------------------------------
(***************************************************************************)
(* C3.  logical_and: right is evaluated if and only if left's status is 0; *)
(* then the result is left's stdout followed by right's, with right's      *)
(* status; otherwise the result is left's result, and nothing happens at   *)
(* right: the result follows left's return with no event in between.       *)
(***************************************************************************)
LogicalAndContract ==
    /\ AllEvaluated
    /\ \A p \in EnteredOfType({"logical_and"}) :
          LET left == p \o <<1>>
              right == p \o <<2>>
          IN  /\ Under(right) # {} =>
                    Has("exit", left) /\ The("exit", left).status = 0
              /\ Has("result", p) =>
                    /\ Has("exit", left)
                    /\ IF The("exit", left).status = 0
                       THEN /\ Has("exit", right)
                            /\ At("exit", left) < At("enter", right)
                            /\ ResultOf(The("result", p)) =
                                 [stdout |-> The("exit", left).text
                                             \o The("exit", right).text,
                                  status |-> The("exit", right).status]
                       ELSE /\ Under(right) = {}
                            /\ At("result", p) = At("exit", left) + 1
                            /\ ResultOf(The("result", p)) =
                                 ResultOf(The("exit", left))

\* an && whose left operand failed with output has its result
LogicalAndWitness ==
    \E p \in EnteredOfType({"logical_and"}) :
        /\ Has("exit", p)
        /\ The("exit", p \o <<1>>).status = 127
        /\ The("exit", p \o <<1>>).text # Empty
        /\ NodeOf(p \o <<2>>).type = "command"

-----------------------------------------------------------------------------
(***************************************************************************)
(* C4.  logical_or: right is evaluated only if left's status is not 0;     *)
(* when left's status is 0 the result is left's result and nothing happens *)
(* at right; when right is evaluated the result has right's status and     *)
(* left's stdout followed by right's.                                      *)
(***************************************************************************)
LogicalOrContract ==
    /\ AllEvaluated
    /\ \A p \in EnteredOfType({"logical_or"}) :
          LET left == p \o <<1>>
              right == p \o <<2>>
          IN  /\ Under(right) # {} =>
                    Has("exit", left) /\ The("exit", left).status # 0
              /\ Has("result", p) =>
                    /\ Has("exit", left)
                    /\ IF The("exit", left).status # 0
                       THEN /\ Has("exit", right)
                            /\ At("exit", left) < At("enter", right)
                            /\ ResultOf(The("result", p)) =
                                 [stdout |-> The("exit", left).text
                                             \o The("exit", right).text,
                                  status |-> The("exit", right).status]
                       ELSE /\ Under(right) = {}
                            /\ At("result", p) = At("exit", left) + 1
                            /\ ResultOf(The("result", p)) =
                                 ResultOf(The("exit", left))

\* an || whose left operand failed has run its right operand, which succeeded
LogicalOrWitness ==
    \E p \in EnteredOfType({"logical_or"}) :
        /\ Has("exit", p)
        /\ The("exit", p \o <<1>>).status # 0
        /\ The("exit", p \o <<1>>).text # Empty
        /\ Has("exit", p \o <<2>>)
        /\ The("exit", p \o <<2>>).text # Empty
        /\ The("exit", p).status = 0

-----------------------------------------------------------------------------
(***************************************************************************)
(* C5.  A group evaluates every child, in list order, each with the        *)
(* group's inbound stdin, whatever the earlier children's statuses; its    *)
(* stdout is the children's stdout in order and its status the last        *)
(* child's.                                                                *)
(***************************************************************************)
RECURSIVE ExitTexts(_, _, _)
\* the returned stdout of the children from..to of the list at path p
ExitTexts(p, from, to) ==
    IF from > to THEN Empty
    ELSE The("exit", p \o <<from>>).text \o ExitTexts(p, from + 1, to)

GroupContract ==
    /\ AllEvaluated
    /\ \A p \in EnteredOfType({"group"}) :
          LET n == Len(NodeOf(p).commands) IN
          /\ \A k \in 1..n :
                Has("enter", p \o <<k>>) =>
                  /\ The("enter", p \o <<k>>).text = The("enter", p).text
                  /\ k > 1 =>
                        /\ Has("exit", p \o <<k - 1>>)
                        /\ At("exit", p \o <<k - 1>>) < At("enter", p \o <<k>>)
          /\ Has("result", p) =>
                /\ \A k \in 1..n : Has("exit", p \o <<k>>)
                /\ The("result", p).text = ExitTexts(p, 1, n)
                /\ The("result", p).status = The("exit", p \o <<n>>).status

\* a group whose first child failed has run its last child and has its result
GroupWitness ==
    \E p \in EnteredOfType({"group"}) :
        LET n == Len(NodeOf(p).commands) IN
        /\ n >= 2
        /\ Has("result", p)
        /\ The("exit", p \o <<1>>).status # 0
        /\ The("exit", p \o <<n>>).status = 0
        /\ The("exit", p \o <<n>>).text # Empty

-----------------------------------------------------------------------------
(***************************************************************************)
(* C6.  An if_statement evaluates its condition first; status 0 selects    *)
(* then_branch, any other status selects else_branch when there is one,    *)
(* and nothing happens in the branch not selected.  The statements of the  *)
(* selected branch run in order up to and including the first one with a   *)
(* non-zero status, the later ones are not evaluated, and the status of    *)
(* the if_statement is that of the last statement evaluated.               *)
(***************************************************************************)
\* the branch the condition's status selects: 2 then, 3 else, 0 none
Selected(p) ==
    IF The("exit", p \o <<1>>).status = 0 THEN 2
    ELSE IF NodeOf(p).else_branch # << >> THEN 3
    ELSE 0

StatementsOf(p, b) ==
    IF b = 2 THEN NodeOf(p).then_branch
    ELSE IF b = 3 THEN NodeOf(p).else_branch
    ELSE << >>

IfContract ==
    /\ AllEvaluated
    /\ \A p \in EnteredOfType({"if_statement"}) :
          /\ \A b \in {2, 3} :
                Under(p \o <<b>>) # {} =>
                  /\ Has("exit", p \o <<1>>)
                  /\ b = Selected(p)
                  /\ \A k \in Under(p \o <<b>>) : At("exit", p \o <<1>>) < k
          /\ Has("result", p) =>
                /\ Has("exit", p \o <<1>>)
                /\ LET b == Selected(p)
                       branch == StatementsOf(p, b)
                       at(k) == p \o <<b, k>>
                   IN  Len(branch) > 0 =>
                         \E n \in 1..Len(branch) :
                            /\ \A k \in 1..Len(branch) :
                                  Has("enter", at(k)) <=> k <= n
                            /\ \A k \in 1..n : Has("exit", at(k))
                            /\ \A k \in 1..(n - 1) :
                                  /\ The("exit", at(k)).status = 0
                                  /\ At("exit", at(k)) < At("enter", at(k + 1))
                            /\ n < Len(branch) => The("exit", at(n)).status # 0
                            /\ The("result", p).status = The("exit", at(n)).status
                            /\ The("result", p).text = ExitTexts(p \o <<b>>, 1, n)

\* a then branch of two statements has stopped after its first, failing,
\* statement
IfWitness ==
    \E p \in EnteredOfType({"if_statement"}) :
        /\ Has("exit", p)
        /\ Selected(p) = 2
        /\ Len(NodeOf(p).then_branch) = 2
        /\ The("exit", p \o <<2, 1>>).status # 0
        /\ ~Has("enter", p \o <<2, 2>>)
        /\ The("exit", p).status = The("exit", p \o <<2, 1>>).status

-----------------------------------------------------------------------------
(***************************************************************************)
(* C7.  An if_statement without else_branch whose condition returns a      *)
(* non-zero status runs no branch, returns stdout "" and status 0, and     *)
(* leaves lastExitStatus at 0 although the condition failed.               *)
(***************************************************************************)
ConditionFailedNoElse(p) ==
    /\ NodeOf(p).type = "if_statement"
    /\ NodeOf(p).else_branch = << >>
    /\ Has("exit", p \o <<1>>)
    /\ The("exit", p \o <<1>>).status # 0

IfWithoutElse ==
    \A p \in EnteredOfType({"if_statement"}) :
        ConditionFailedNoElse(p) =>
          /\ Under(p \o <<2>>) = {}
          /\ Under(p \o <<3>>) = {}
          /\ Has("result", p) =>
                ResultOf(The("result", p)) = [stdout |-> Empty, status |-> 0]
          /\ (Has("exit", p) /\ ~HasRedirection(NodeOf(p))) =>
                /\ ResultOf(The("exit", p)) = [stdout |-> Empty, status |-> 0]
                /\ At("exit", p) = Len(task.log) => kernel.lastExitStatus = 0

\* such an if_statement has just returned, after a condition that set
\* lastExitStatus to 127
IfWithoutElseWitness ==
    \E p \in EnteredOfType({"if_statement"}) :
        /\ ConditionFailedNoElse(p)
        /\ The("exit", p \o <<1>>).status = 127
        /\ Has("exit", p)
        /\ At("exit", p) = Len(task.log)
        /\ kernel.lastExitStatus = 0

-----------------------------------------------------------------------------
(***************************************************************************)
(* C8.  After a node carrying a redirection to f is evaluated with no I/O  *)
(* error, the file at resolvePath(f, cwd) holds exactly the node's         *)
(* captured stdout when the mode is overwrite, and its previous content    *)
(* (empty when it did not exist) followed by the node's stdout when the    *)
(* mode is append; storage changes in no other way, but for the text the   *)
(* editor saves.  Hence one overwrite followed by k appends leaves the k+1 *)
(* outputs in order.                                                       *)
(***************************************************************************)
\* the content of a file as a sequence of at most one text: << >> when absent
Stored(fs, file) ==
    IF file \in DOMAIN fs.files THEN <<fs.files[file]>> ELSE << >>

RECURSIVE Replay(_, _)
\* what the file holds after the first k events of the log, by the rule above
Replay(k, file) ==
    IF k = 0 THEN Stored(task.pfs0, file)
    ELSE LET event == task.log[k]
             previous == Replay(k - 1, file)
             stdout == The("result", event.path).text
         IN  IF event.ev = "write" /\ event.where = file
             THEN IF NodeOf(event.path).redirection.mode = "overwrite"
                  THEN <<stdout>>
                  ELSE <<(IF previous = << >> THEN Empty ELSE previous[1])
                         \o stdout>>
             ELSE IF event.ev = "save" /\ event.where = file
                  THEN <<event.text>>
                  ELSE previous

\* the files written so far
Written ==
    {task.log[k].where :
        k \in {j \in DOMAIN task.log : task.log[j].ev \in {"write", "save"}}}

RedirectionContent ==
    /\ \A k \in DOMAIN task.log :
          task.log[k].ev = "write" =>
            LET p == task.log[k].path IN
            /\ HasRedirection(NodeOf(p))
            /\ Has("result", p)
            /\ At("result", p) < k
            /\ task.log[k].where =
                 resolvePath(NodeOf(p).redirection.file, The("result", p).where)
    /\ \A p \in Entered :
          (HasRedirection(NodeOf(p)) /\ Has("exit", p) /\ ~Has("fail", p)) =>
             Has("write", p) /\ At("write", p) < At("exit", p)
    /\ \A file \in DOMAIN pfs.files \cup DOMAIN task.pfs0.files \cup Written :
          Stored(pfs, file) = Replay(Len(task.log), file)
    /\ pfs.dirs = task.pfs0.dirs

\* a file that held other content has been overwritten and then appended to
\* twice, and holds the three outputs in order
RedirectionContentWitness ==
    /\ LineDone
    /\ Len(task.ast) = 3
    /\ \A i \in 1..3 : Has("write", <<i>>) /\ The("write", <<i>>).where = <<"", "f">>
    /\ NodeOf(<<1>>).redirection.mode = "overwrite"
    /\ NodeOf(<<2>>).redirection.mode = "append"
    /\ NodeOf(<<3>>).redirection.mode = "append"
    /\ Stored(task.pfs0, <<"", "f">>) = <<<<"x", "\n">>>>
    /\ The("result", <<1>>).text # The("result", <<2>>).text
    /\ Stored(pfs, <<"", "f">>)
         = <<The("result", <<1>>).text \o The("result", <<2>>).text
             \o The("result", <<3>>).text>>

-----------------------------------------------------------------------------
(***************************************************************************)
(* C9.  When a redirection succeeds the node returns the empty stdout:     *)
(* the driver writes nothing to the terminal for the node, the next stage  *)
(* of a pipeline gets the empty stdin, and the result of a parent group,   *)
(* && or ||, or if branch is made of the other children's stdout only.     *)
(***************************************************************************)
RECURSIVE OthersText(_, _, _, _)
\* the returned stdout of the children from..to of the list at path q that
\* have returned, but for the child skip
OthersText(q, skip, from, to) ==
    IF from > to THEN Empty
    ELSE (IF from # skip /\ Has("exit", q \o <<from>>)
          THEN The("exit", q \o <<from>>).text ELSE Empty)
         \o OthersText(q, skip, from + 1, to)

Front(p, n) == SubSeq(p, 1, Len(p) - n)

Last(p) == p[Len(p)]

\* the node at p is an operand or a child of the node at Front(p, 1)
HasParentNode(p) ==
    Len(p) >= 2 /\ Front(p, 1) \in Entered

\* the node at p returned to a group, && or || at Front(p, 1)
InList(p) ==
    /\ HasParentNode(p)
    /\ NodeOf(Front(p, 1)).type \in {"group", "logical_and", "logical_or"}

\* the node at p is the from stage of the pipeline at Front(p, 1)
IsFrom(p) ==
    /\ HasParentNode(p)
    /\ NodeOf(Front(p, 1)).type = "pipeline"
    /\ Last(p) = 1

\* the node at p returned to a branch of the if_statement at Front(p, 2)
InBranch(p) ==
    /\ Len(p) >= 3
    /\ ~HasParentNode(p)
    /\ p[Len(p) - 1] \in {2, 3}

RedirectedOutputOnlyStored ==
    \A p \in Entered :
        (Has("write", p) /\ Has("exit", p)) =>
          /\ The("exit", p).text = Empty
          /\ \A k \in Indexes("term", p) : k < At("exit", p)
          /\ (IsFrom(p) /\ Has("enter", Front(p, 1) \o <<2>>)) =>
                The("enter", Front(p, 1) \o <<2>>).text = Empty
          /\ (InList(p) /\ Has("result", Front(p, 1))) =>
                The("result", Front(p, 1)).text
                  = OthersText(Front(p, 1), Last(p), 1, MaxBlock + 1)
          /\ (InBranch(p) /\ Has("result", Front(p, 2))) =>
                The("result", Front(p, 2)).text
                  = OthersText(Front(p, 1), Last(p), 1, MaxBlock + 1)

\* a node with output was redirected with success as the first stage of a
\* pipeline, and the pipeline has returned
RedirectedOutputWitness ==
    \E p \in Entered :
        /\ Has("write", p)
        /\ The("result", p).text # Empty
        /\ IsFrom(p)
        /\ Has("exit", Front(p, 1))
        /\ The("exit", Front(p, 1)).text = Empty

-----------------------------------------------------------------------------
(***************************************************************************)
(* C10.  When the storage write of a redirection fails, executeNode still  *)
(* returns: the status is 1 whatever the command's status was, an error    *)
(* line goes to the output sink and storage is unchanged; and the node's   *)
(* captured output is dropped: it is not in the result returned to the     *)
(* caller.                                                                 *)
(***************************************************************************)
\* the part about the report: status 1, error line, nothing stored
FailedRedirectionReported ==
    /\ AllEvaluated
    /\ \A p \in Entered :
          Has("fail", p) =>
            /\ ~Has("write", p)
            /\ Has("exit", p) =>
                  /\ The("exit", p).status = 1
                  /\ \E k \in Indexes("term", p) :
                        /\ At("fail", p) < k /\ k < At("exit", p)
                        /\ task.log[k].text =
                             Crlf(<<"-qrx: ">>
                                  \o WordText(NodeOf(p).redirection.file)
                                  \o <<": ">>
                                  \o WriteErrorMessage(task.pfs0,
                                                       The("fail", p).where)
                                  \o <<"\r", "\n">>)

\* the part about the output: the caller gets none of it
FailedOutputNotReturned ==
    \A p \in Entered :
        (Has("fail", p) /\ Has("exit", p)) => The("exit", p).text = Empty

FailedRedirectionLosesOutput ==
    FailedRedirectionReported /\ FailedOutputNotReturned

-----------------------------------------------------------------------------
(***************************************************************************)
(* C11.  Whenever executeNode returns a result, lastExitStatus is the      *)
(* result's status at that moment, for every node, nested or top-level,    *)
(* with or without redirection: after a failed redirection it is 1.        *)
(***************************************************************************)
\* a call of executeNode has just returned and its caller has not resumed
JustReturned ==
    /\ task.ret # NoRet
    /\ task.log # << >>
    /\ task.log[Len(task.log)].ev = "exit"

LastExit == task.log[Len(task.log)]

LastExitStatusIsResult ==
    /\ task.ret # NoRet => JustReturned
    /\ JustReturned =>
          /\ ResultOf(LastExit) = task.ret[1]
          /\ kernel.lastExitStatus = task.ret[1].status
          /\ Has("fail", LastExit.path) => kernel.lastExitStatus = 1

\* a nested node whose command ended with status 0 has just returned from a
\* failed redirection, after a node that had left lastExitStatus at 127
LastExitStatusWitness ==
    /\ JustReturned
    /\ Len(LastExit.path) >= 2
    /\ Has("fail", LastExit.path)
    /\ The("result", LastExit.path).status = 0
    /\ The("run", LastExit.path).status = 127
    /\ kernel.lastExitStatus = 1

-----------------------------------------------------------------------------
(***************************************************************************)
(* C12.  When a command is dispatched, every occurrence of $? in its       *)
(* arguments is replaced by the decimal string of lastExitStatus as it is  *)
(* then: the status of the node evaluation that returned last.  All other  *)
(* argument text is passed unchanged.                                      *)
(***************************************************************************)
\* the status of the call of executeNode that returned last before event k
\* of the log; 0, the initial lastExitStatus, when none has
StatusBefore(k) ==
    LET exits == {j \in 1..(k - 1) : task.log[j].ev = "exit"} IN
    IF exits = {} THEN 0
    ELSE task.log[CHOOSE j \in exits : \A h \in exits : h <= j].status

\* a word with every $? in it replaced by the decimal string of n
Expanded(word, n) ==
    [k \in DOMAIN word |-> IF word[k] = "$?" THEN ToString(n) ELSE word[k]]

\* what the command at p is run with, for the arguments args
RunText(p, args) ==
    Join(<<<<NodeOf(p).name>>>> \o WordTexts(args), <<" ">>)

\* the arguments that are $? and nothing else are replaced, the others passed
\* as they are
StatusArgumentsExpanded ==
    \A k \in DOMAIN task.log :
        task.log[k].ev = "run" =>
          LET p == task.log[k].path
              args == NodeOf(p).args
          IN  /\ task.log[k].status = StatusBefore(k)
              /\ task.log[k].text =
                   RunText(p, [a \in DOMAIN args |->
                                  IF args[a] = <<"$?">>
                                  THEN Expanded(args[a], StatusBefore(k))
                                  ELSE args[a]])

\* every $? is replaced, also inside a longer argument
StatusOccurrencesExpanded ==
    \A k \in DOMAIN task.log :
        task.log[k].ev = "run" =>
          LET p == task.log[k].path
              args == NodeOf(p).args
          IN  task.log[k].text =
                RunText(p, [a \in DOMAIN args |->
                               Expanded(args[a], StatusBefore(k))])

-----------------------------------------------------------------------------
(***************************************************************************)
(* C13.  A command whose name matches ^[A-Za-z_][A-Za-z0-9_]*=.+ and that  *)
(* has no arguments is an assignment: env[VAR] becomes the value without   *)
(* its quotes, the result is stdout "" and status 0, nothing is            *)
(* dispatched, and every other env entry and cwd stay as they are.  With   *)
(* arguments the same name leaves env unchanged and is resolved as a       *)
(* command.                                                                *)
(***************************************************************************)
\* the command nodes that have been dispatched
Dispatched ==
    {p \in Entered : Has("dispatch", p)}

KindOf(p) == The("dispatch", p).text[1]

MatchesAssignment(p) == assignMatch(NodeOf(p).name) # << >>

AssignmentResult ==
    \A p \in Dispatched :
        MatchesAssignment(p) =>
          IF NodeOf(p).args = << >>
          THEN /\ KindOf(p) = "assignment"
               /\ Has("result", p) =>
                     ResultOf(The("result", p)) = [stdout |-> Empty, status |-> 0]
          ELSE /\ KindOf(p) # "assignment"
               /\ KindOf(p) = (IF NodeOf(p).name \in Registered
                               THEN "registered" ELSE "builtins")

\* the call on top of the stack is about to run an assignment
Assigning ==
    /\ Starting("command")
    /\ assignMatch(Top(World).node.name) # << >>
    /\ Top(World).node.args = << >>

AssignmentStep ==
    IF Assigning
    THEN LET groups == assignMatch(Top(World).node.name) IN
         /\ DOMAIN kernel'.env = DOMAIN kernel.env \cup {groups[1]}
         /\ kernel'.env[groups[1]] = StripQuotes(groups[2])
         /\ \A var \in DOMAIN kernel.env \ {groups[1]} :
               kernel'.env[var] = kernel.env[var]
         /\ kernel'.cwd = kernel.cwd
         /\ pfs' = pfs
         /\ term' = term
    ELSE kernel'.env = kernel.env

AssignmentContract ==
    []AssignmentResult /\ [][AssignmentStep]_vars

\* a second assignment has returned and the first one's entry is still there
AssignmentWitness ==
    /\ DOMAIN kernel.env = {<<"X">>, <<"_", "y">>}
    /\ kernel.env[<<"X">>] = <<"1">>
    /\ kernel.env[<<"_", "y">>] = <<"2">>
    /\ \E p \in Dispatched :
          /\ NodeOf(p).name = "_y=2"
          /\ Has("exit", p)
          /\ ResultOf(The("exit", p)) = [stdout |-> Empty, status |-> 0]

-----------------------------------------------------------------------------
(***************************************************************************)
(* C14.  A command name is resolved in a fixed order: first an override    *)
(* stored under the reserved path /sys/cmd for that name, which shadows a  *)
(* registered command or session built-in of the name; otherwise the       *)
(* registered command with a run; otherwise the session built-ins help,    *)
(* clear and the empty name; otherwise command not found with status 127.  *)
(* One of them at most is executed for one invocation.                     *)
(***************************************************************************)
\* the file an override of the command is looked for at
OverridePath(name) ==
    <<"", "sys", "cmd",
      CASE name = "echo" -> "echo.js"
        [] name = "cat" -> "cat.js"
        [] name = "cd" -> "cd.js"
        [] name = "help" -> "help.js"
        [] OTHER -> "zzz.js">>

\* the commands dispatched by name: neither the empty name nor an assignment
Resolved ==
    {p \in Dispatched : KindOf(p) \notin {"none", "assignment"}}

SessionBuiltins == {"help", "clear", ""}

\* when Kernel.handleBuiltins is reached: 127 unless the name is a built-in
BuiltinsOrNotFound(p) ==
    /\ KindOf(p) = "builtins"
    /\ Has("result", p) =>
          (The("result", p).status = 127) <=> (NodeOf(p).name \notin SessionBuiltins)

\* the order without its first step
RegisteredFirstResolution ==
    \A p \in Resolved :
        /\ Cardinality(Indexes("dispatch", p)) = 1
        /\ IF NodeOf(p).name \in Registered
           THEN KindOf(p) = "registered"
           ELSE BuiltinsOrNotFound(p)

OverrideFirstResolution ==
    \A p \in Resolved :
        /\ Cardinality(Indexes("dispatch", p)) = 1
        /\ IF OverridePath(NodeOf(p).name) \in DOMAIN task.pfs0.files
           THEN KindOf(p) = "override"
           ELSE IF NodeOf(p).name \in Registered
           THEN KindOf(p) = "registered"
           ELSE BuiltinsOrNotFound(p)

-----------------------------------------------------------------------------
(***************************************************************************)
(* C15.  A command whose name is neither an assignment, nor a registered   *)
(* command, nor a session built-in yields status 127 and the message       *)
(* "command not found: <name>"; no registered command is run, and env and  *)
(* cwd are unchanged.                                                      *)
(***************************************************************************)
Unknown(node) ==
    /\ node.type = "command"
    /\ node.name \notin Registered \cup SessionBuiltins
    /\ ~(assignMatch(node.name) # << >> /\ node.args = << >>)

NotFoundResult ==
    \A p \in Dispatched :
        Unknown(NodeOf(p)) =>
          /\ KindOf(p) = "builtins"
          /\ Has("result", p) =>
                /\ The("result", p).status = 127
                /\ The("result", p).text =
                     (IF NodeOf(p).background /\ ~HasRedirection(NodeOf(p))
                      THEN Empty
                      ELSE <<"command not found: ", NodeOf(p).name, "\n">>)

\* while the unknown command is the call on top of the stack
NotFoundStep ==
    (Running /\ Unknown(Top(World).node)) =>
        /\ kernel'.env = kernel.env
        /\ kernel'.cwd = kernel.cwd

------------------------------------------------------------------------------
(***************************************************************************)
(* C16.  When the run of a dispatched command rejects with an error, the   *)
(* command node yields status 1 and the line "-qrx: <name>: <message>" is  *)
(* written through kernel.writeln, the sink of the node: it is the node's  *)
(* stdout, and is dropped with the rest of the output of a background node *)
(* without redirection.  The error stops at the node: executeNode returns  *)
(* for it, and the statements after it in the line are evaluated.          *)
(***************************************************************************)
Threw ==
    {task.log[k].path : k \in {j \in DOMAIN task.log : task.log[j].ev = "throw"}}

ErrorLine(p) ==
    <<"-qrx: ", NodeOf(p).name, ": ">> \o The("throw", p).text \o <<"\n">>

ThrownErrorStops ==
    /\ \A p \in Threw :
          /\ Has("result", p) =>
                /\ The("result", p).status = 1
                /\ The("result", p).text =
                     (IF NodeOf(p).background /\ ~HasRedirection(NodeOf(p))
                      THEN Empty
                      ELSE ErrorLine(p))
          /\ LineDone => Has("exit", p)
    /\ LineDone =>
          \A i \in 1..(Len(task.ast) - 1) :
              (\E p \in Threw : p[1] = i) => Has("exit", <<i + 1>>)

\* C16 as the spec words it: the text rendered is "<name>: <message>"
ThrownErrorRendered ==
    \A p \in Threw :
        (Has("result", p) /\ ~NodeOf(p).background) =>
          /\ The("result", p).status = 1
          /\ The("result", p).text =
               <<NodeOf(p).name, ": ">> \o The("throw", p).text \o <<"\n">>

\* the run of the first statement rejected, and the second statement ran
\* and printed the status 1
ThrownErrorWitness ==
    /\ LineDone
    /\ Len(task.ast) = 2
    /\ <<1>> \in Threw
    /\ ResultOf(The("exit", <<1>>)) =
          [stdout |-> <<"-qrx: ", "git", ": ", "<message>", "\n">>, status |-> 1]
    /\ Has("exit", <<2>>)
    /\ The("exit", <<2>>).text = <<"1", "\n">>

------------------------------------------------------------------------------
(***************************************************************************)
(* C17.  executeNode never throws and its promise never rejects: every     *)
(* call, on a node of any variant or on an absent node, resolves with an   *)
(* ExecutionResult {stdout, status}.  Stated for SpecAbsent, where the    *)
(* driver also passes an absent node.                                      *)
(***************************************************************************)
Rejected ==
    {task.log[k].path : k \in {j \in DOMAIN task.log : task.log[j].ev = "reject"}}

------------------------------------------------------------------------------
(***************************************************************************)
(* C18.  Every failure (a parse error, a command not found, an error       *)
(* thrown by a command, a failed redirection write) gives its node a       *)
(* non-zero status and a message that is on the terminal once the line is  *)
(* done, whatever surrounds the failing node.                              *)
(***************************************************************************)
\* part is in text, as consecutive pieces
Contains(text, part) ==
    \E k \in 0..(Len(text) - Len(part)) :
        SubSeq(text, k + 1, k + Len(part)) = part

\* the message of the failure at the node at p, without its line end;
\* << >> when nothing failed there
FailureMessage(p) ==
    LET node == NodeOf(p) IN
    CASE node.type = "error" -> <<"-qrx: parse error: ", node.message>>
      [] Has("fail", p) ->
            <<"-qrx: ">> \o WordText(node.redirection.file) \o <<": ">>
      [] p \in Threw ->
            <<"-qrx: ", node.name, ": ">> \o The("throw", p).text
      [] p \in Dispatched /\ Unknown(node) ->
            <<"command not found: ", node.name>>
      [] OTHER -> << >>

FailureMessageShown ==
    LineDone =>
        \A p \in Entered :
            FailureMessage(p) # << >> =>
              /\ The("exit", p).status # 0
              /\ Contains(term, FailureMessage(p))

------------------------------------------------------------------------------
(***************************************************************************)
(* C19.  For a command node evaluated while no other evaluation is in      *)
(* flight: the node's stdout is the concatenation, in order, of what the   *)
(* command wrote through write and writeln during its invocation, unless   *)
(* the node is a background node without redirection, whose writes are     *)
(* dropped and whose stdout is empty; nothing reaches the terminal during  *)
(* the invocation; and when the invocation is over kernel.write and        *)
(* kernel.writeln are the sinks they were on entry, the terminal's.        *)
(***************************************************************************)
\* what the command at p wrote during its invocation, in order
WritesOf(p) ==
    TextOf(SubSeq(task.log, At("run", p), At("result", p)), "out")

\* the places in the log of the invocation of the command at p
During(p) ==
    (At("run", p) + 1)..(At("result", p) - 1)

\* a command is being invoked: its call is on top of the stack
Invoking ==
    task.stack # << >> /\ Top(World).pc = "command"

CaptureContract ==
    /\ \A p \in Dispatched :
          Has("result", p) =>
            /\ The("result", p).text =
                  (IF IsBackground(NodeOf(p)) THEN Empty ELSE WritesOf(p))
            /\ \A k \in During(p) :
                  /\ task.log[k].ev # "term"
                  /\ task.log[k].path = p
    /\ IF Invoking
       THEN /\ kernel.write = CaptureSink(Top(World).node, Len(task.stack),
                                          <<task.line>> \o Top(World).path)
            /\ Top(World).originalWrite = TermSink
       ELSE kernel.write = TermSink

\* C19 as the spec words it: the stdout of every command node is what the
\* command wrote
CapturedOutputIsStdout ==
    \A p \in Dispatched :
        Has("result", p) => The("result", p).text = WritesOf(p)

\* a command whose invocation spans an await has returned what it wrote,
\* and the sinks are the terminal's again
CaptureWitness ==
    \E p \in Dispatched :
        /\ Has("exit", p)
        /\ Awaits(NodeOf(p).name, NodeOf(p).args, The("enter", p).text)
        /\ {k \in During(p) : task.log[k].ev = "out"} # {}
        /\ WritesOf(p) # Empty
        /\ The("result", p).text = WritesOf(p)
        /\ kernel.write = TermSink

------------------------------------------------------------------------------
(***************************************************************************)
(* C20.  Evaluations that overlap in time do not corrupt each other's      *)
(* buffers: under every interleaving at the suspension points the captured *)
(* stdout of each command holds exactly that command's own writes, and     *)
(* once all overlapping evaluations have finished kernel.write and         *)
(* kernel.writeln are the terminal sink again.  Stated for SpecOverlap,   *)
(* where a second line is evaluated while the first is suspended.          *)
(***************************************************************************)
AllFinished ==
    /\ LineDone
    /\ task.other # << >> => task.other[1].pc = "idle"

OverlapKeepsBuffers ==
    /\ \A p \in Dispatched :
          (Has("result", p) /\ ~IsBackground(NodeOf(p))) =>
              The("result", p).text = WritesOf(p)
    /\ AllFinished => kernel.write = TermSink

-----------------------------------------------------------------------------
(***************************************************************************)
(* C21.  A command invocation occupies the single slot                     *)
(* kernel.currentProcess for its duration, and the slot is cleared when it *)
(* is over: while the call of a command is the running one (and its editor *)
(* has not been closed) the slot holds the promise or the cancel hook of   *)
(* that very command, and while no command is being invoked in any call of *)
(* runCommand the slot is null.  Stated for SpecOverlap.                   *)
(***************************************************************************)
\* the call of runCommand t is invoking a command that is not over
InvokingIn(t) ==
    /\ t.stack # << >>
    /\ t.stack[Len(t.stack)].pc = "command"
    /\ t.stack[Len(t.stack)].editor # "closed"

SlotHoldsRunningCommand ==
    /\ InvokingIn(task) =>
          /\ kernel.currentProcess.kind # "null"
          /\ kernel.currentProcess.owner = <<task.line>> \o Top(World).path
    /\ (~InvokingIn(task) /\ \A k \in DOMAIN task.other : ~InvokingIn(task.other[k]))
          => kernel.currentProcess = NoProcess

-----------------------------------------------------------------------------
(***************************************************************************)
(* C22.  A Ctrl+C while a command is in progress either calls the cancel   *)
(* hook in kernel.currentProcess (the editor asks or closes; nothing is    *)
(* written and commandInProgress is left alone), or, the slot having no    *)
(* hook, shows ^C and a fresh prompt on the terminal and clears            *)
(* commandInProgress, while the call in flight stays where it was          *)
(* suspended.  Stated for SpecOverlap.                                     *)
(***************************************************************************)
\* where each executeNode call of the stack is
Positions(t) ==
    [k \in DOMAIN t.stack |-> t.stack[k].pc]

CancelReportsOrCallsHook ==
    [][CtrlC =>
         IF kernel.currentProcess.kind = "cancel"
         THEN /\ term' = term
              /\ task'.log = task.log
              /\ kernel'.commandInProgress = kernel.commandInProgress
              /\ EditorFrame(World, kernel.currentProcess.owner).editor = "open"
                    => EditorFrame([World EXCEPT !.task = task'],
                                   kernel.currentProcess.owner).editor
                          \in {"modal", "closed"}
         ELSE /\ term' = term \o Crlf(<<"^C", "\r", "\n">>)
                              \o PromptText(kernel.cwd)
              /\ ~kernel'.commandInProgress
              /\ Positions(task') = Positions(task)
              /\ Suspended(task')]_vars

-----------------------------------------------------------------------------
(***************************************************************************)
(* C23.  A command evaluated as part of a background statement never       *)
(* occupies kernel.currentProcess: whenever the slot is not null, the      *)
(* command it designates is neither flagged background nor below a node    *)
(* that is.                                                                *)
(***************************************************************************)
\* the node at path p of the line, or a node above it, is flagged background
InBackground(p) ==
    \E k \in 1..Len(p) : NodeOf(SubSeq(p, 1, k)).background

BackgroundNeverInSlot ==
    kernel.currentProcess.kind # "null"
        => ~InBackground(Tail(kernel.currentProcess.owner))

-----------------------------------------------------------------------------
(***************************************************************************)
(* C24.  The driver does not await a top-level statement flagged           *)
(* background: once executeNode has been entered for it the driver is not  *)
(* waiting for its result, and has written a job acknowledgement ("[1]")   *)
(* to the terminal for it.                                                 *)
(***************************************************************************)
\* the driver has written a job acknowledgement for statement i
Acknowledged(i) ==
    \E k \in DOMAIN task.log :
        /\ task.log[k].ev = "term"
        /\ task.log[k].path = <<i>>
        /\ task.log[k].text # Empty
        /\ task.log[k].text[1] = "["

BackgroundNotAwaited ==
    \A i \in DOMAIN task.ast :
        (task.ast[i].background /\ Has("enter", <<i>>)) =>
            /\ ~(task.pc = "await" /\ task.i = i)
            /\ Acknowledged(i)

-----------------------------------------------------------------------------
(***************************************************************************)
(* C25.  The output of a background statement is discarded unless the      *)
(* statement carries a redirection: nothing is written to the terminal at  *)
(* or below a background statement without redirection, whatever its kind *)
(* (command, pipeline, && or ||, group, if); a background statement with a *)
(* redirection that has returned without I/O error has had its output      *)
(* written to the target.                                                  *)
(***************************************************************************)
BackgroundOutputDiscarded ==
    \A i \in DOMAIN task.ast :
        task.ast[i].background =>
            IF HasRedirection(task.ast[i])
            THEN (Has("exit", <<i>>) /\ ~Has("fail", <<i>>)) => Has("write", <<i>>)
            ELSE \A k \in Under(<<i>>) : task.log[k].ev # "term"

-----------------------------------------------------------------------------
(***************************************************************************)
(* The parser (sys/parser.js) and its grammar.  A line is the sequence of  *)
(* its characters: the grammar has no lexer, so nearley feeds the line one *)
(* character at a time and every terminal symbol of a rule (a literal or a *)
(* regular expression) is matched against exactly one character.  Each     *)
(* rule is an operator that gives the set of the values its postprocess    *)
(* functions return for the derivations of a text; a string of the source  *)
(* is the sequence of its characters here, so join('') of a list of        *)
(* characters is that list.                                                 *)
(***************************************************************************)
\* /[\s\t]/ on one character
IsSpace(c) ==
    c \in {" ", "\t", "\n"}

\* rule _ : any number of whitespace characters
OptionalSpace(s) ==
    \A k \in DOMAIN s : IsSpace(s[k])

\* rule __ : one terminal /[\s\t]+/, hence one whitespace character
Space(s) ==
    Len(s) = 1 /\ IsSpace(s[1])

\* where the text before an optional space that ends just before place k
\* can end
SpaceBefore(s, k) ==
    {i \in 0..(k - 1) : OptionalSpace(SubSeq(s, i + 1, k - 1))}

\* where an optional space that starts just after place k can end
SpaceAfter(s, k) ==
    {j \in k..Len(s) : OptionalSpace(SubSeq(s, k + 1, j))}

\* the places of the character c in s
Places(s, c) ==
    {k \in DOMAIN s : s[k] = c}

\* the grave accent, which cannot be written in a string of this module
GraveAccent == "U+0060"

\* rule bare_char
bare_char(c) ==
    /\ c \notin {"|", "&", "<", ">", ";", "(", ")", "'", "\"", GraveAccent}
    /\ ~IsSpace(c)

\* rule bare_chars: whether s is one
bare_chars(s) ==
    s # << >> /\ \A k \in DOMAIN s : bare_char(s[k])

\* rule bare_char_leading_hyphen
bare_char_leading_hyphen(s) ==
    Len(s) >= 2 /\ s[1] = "-" /\ bare_chars(Tail(s))

reservedKeywords ==
    {<<"i", "f">>, <<"t", "h", "e", "n">>, <<"e", "l", "s", "e">>, <<"f", "i">>}

\* rule IDENTIFIER: the postprocess returns null for a reserved word, and a
\* postprocess that returns null gives the value null (only the
\* reject sentinel of nearley discards a derivation)
IDENTIFIER(s) ==
    IF bare_chars(s) \/ bare_char_leading_hyphen(s)
    THEN {IF s \in reservedKeywords THEN Null ELSE s}
    ELSE {}

\* rule string (with sq_chars, dq_chars)
string(s) ==
    IF /\ Len(s) >= 2
       /\ \E q \in {"'", "\""} :
             /\ s[1] = q
             /\ s[Len(s)] = q
             /\ \A k \in 2..(Len(s) - 1) : s[k] # q
    THEN {SubSeq(s, 2, Len(s) - 1)}
    ELSE {}

\* rule bareword
bareword(s) ==
    IF bare_chars(s) \/ bare_char_leading_hyphen(s) THEN {s} ELSE {}

\* rule word
word(s) ==
    string(s) \cup bareword(s)

RECURSIVE arg_list(_)
\* rule arg_list
arg_list(s) ==
    {<<w>> : w \in word(s)}
    \cup UNION {{Append(l, w) : l \in arg_list(SubSeq(s, 1, k - 1)),
                                w \in word(SubSeq(s, k + 1, Len(s)))} :
                k \in {j \in DOMAIN s : IsSpace(s[j])}}

\* rule command
command(s) ==
    {Command(n, << >>) : n \in IDENTIFIER(s)}
    \cup UNION {{Command(n, a) : n \in IDENTIFIER(SubSeq(s, 1, k - 1)),
                                 a \in arg_list(SubSeq(s, k + 1, Len(s)))} :
                k \in {j \in DOMAIN s : IsSpace(s[j])}}

\* rule redirect
redirect(s) ==
    (IF Len(s) >= 2 /\ s[1] = ">" /\ s[2] = ">"
     THEN UNION {{[mode |-> "append", file |-> w] :
                     w \in word(SubSeq(s, j + 1, Len(s)))} :
                 j \in SpaceAfter(s, 2)}
     ELSE {})
    \cup
    (IF Len(s) >= 1 /\ s[1] = ">"
     THEN UNION {{[mode |-> "overwrite", file |-> w] :
                     w \in word(SubSeq(s, j + 1, Len(s)))} :
                 j \in SpaceAfter(s, 1)}
     ELSE {})

RECURSIVE command_list(_)
RECURSIVE command_unit(_)
RECURSIVE logical_sequence(_)
RECURSIVE pipeline(_)
RECURSIVE command_group(_)

\* rule command_group
command_group(s) ==
    command(s)
    \cup UNION {UNION {{Redirect(g, r.mode, r.file) :
                           g \in command_group(SubSeq(s, 1, i)),
                           r \in redirect(SubSeq(s, k, Len(s)))} :
                       i \in SpaceBefore(s, k)} :
                k \in Places(s, ">")}
    \cup (IF Len(s) >= 2 /\ s[1] = "(" /\ s[Len(s)] = ")"
          THEN UNION {UNION {{Group(c) : c \in command_list(SubSeq(s, i + 1, j))} :
                             j \in SpaceBefore(s, Len(s))} :
                      i \in SpaceAfter(s, 1)}
          ELSE {})

\* rule pipeline
pipeline(s) ==
    command_group(s)
    \cup UNION {UNION {UNION {{Pipeline(f, t) :
                                  f \in pipeline(SubSeq(s, 1, i)),
                                  t \in command_group(SubSeq(s, j + 1, Len(s)))} :
                              j \in SpaceAfter(s, k)} :
                       i \in SpaceBefore(s, k)} :
                k \in Places(s, "|")}

\* the keyword block of an if statement: keyword __ command_list _ ";" _,
\* as the pairs of a value of the list and the place the block ends at
Block(s, keyword) ==
    IF Len(s) >= 2 /\ s[1] = keyword /\ IsSpace(s[2])
    THEN UNION {UNION {UNION {{<<c, j>> : c \in command_list(SubSeq(s, 3, i))} :
                              j \in SpaceAfter(s, k)} :
                       i \in SpaceBefore(s, k)} :
                k \in Places(s, ";")}
    ELSE {}

\* rule if_statement: the literals "if", "then", "else" and "fi" are single
\* terminals, each matched against one character of the line
if_statement(s) ==
    IF Len(s) >= 2 /\ s[1] = "if" /\ IsSpace(s[2])
    THEN UNION {UNION {UNION {
             LET rest == SubSeq(s, j + 1, Len(s)) IN
             UNION {
                LET after == SubSeq(rest, t[2] + 1, Len(rest)) IN
                {IfStatement(c, t[1], << >>) :
                    c \in IF after = <<"fi">>
                          THEN pipeline(SubSeq(s, 3, i)) ELSE {}}
                \cup
                UNION {{IfStatement(c, t[1], e[1]) :
                           c \in IF SubSeq(after, e[2] + 1, Len(after)) = <<"fi">>
                                 THEN pipeline(SubSeq(s, 3, i)) ELSE {}} :
                       e \in Block(after, "else")} :
                t \in Block(rest, "then")} :
                 j \in SpaceAfter(s, k)} :
                       i \in SpaceBefore(s, k)} :
                k \in Places(s, ";")}
    ELSE {}

\* logical_sequence where the right operand of && and || is a whole
\* logical_sequence and the left one a pipeline
logical_sequenceRightAssociative(s) ==
    if_statement(s)
    \cup pipeline(s)
    \cup UNION {{LogicalAnd(l, r) :
                    l \in pipeline(SubSeq(s, 1, k - 2)),
                    r \in logical_sequence(SubSeq(s, k + 3, Len(s)))} :
                k \in {j \in 2..(Len(s) - 2) :
                          /\ IsSpace(s[j - 1]) /\ s[j] = "&"
                          /\ s[j + 1] = "&" /\ IsSpace(s[j + 2])}}
    \cup UNION {{LogicalOr(l, r) :
                    l \in pipeline(SubSeq(s, 1, k - 2)),
                    r \in logical_sequence(SubSeq(s, k + 3, Len(s)))} :
                k \in {j \in 2..(Len(s) - 2) :
                          /\ IsSpace(s[j - 1]) /\ s[j] = "|"
                          /\ s[j + 1] = "|" /\ IsSpace(s[j + 2])}}

\* rule logical_sequence
logical_sequence(s) ==
    if_statement(s)
    \cup pipeline(s)
    \cup UNION {{LogicalAnd(l, r) :
                    l \in logical_sequence(SubSeq(s, 1, k - 2)),
                    r \in pipeline(SubSeq(s, k + 3, Len(s)))} :
                k \in {j \in 2..(Len(s) - 2) :
                          /\ IsSpace(s[j - 1]) /\ s[j] = "&"
                          /\ s[j + 1] = "&" /\ IsSpace(s[j + 2])}}
    \cup UNION {{LogicalOr(l, r) :
                    l \in logical_sequence(SubSeq(s, 1, k - 2)),
                    r \in pipeline(SubSeq(s, k + 3, Len(s)))} :
                k \in {j \in 2..(Len(s) - 2) :
                          /\ IsSpace(s[j - 1]) /\ s[j] = "|"
                          /\ s[j + 1] = "|" /\ IsSpace(s[j + 2])}}

\* rule command_unit
command_unit(s) ==
    logical_sequence(s)
    \cup (IF Len(s) >= 1 /\ s[Len(s)] = "&"
          THEN UNION {{Background(n) : n \in logical_sequence(SubSeq(s, 1, i))} :
                      i \in SpaceBefore(s, Len(s))}
          ELSE {})

\* rule command_list
command_list(s) ==
    {<<u>> : u \in command_unit(s)}
    \cup UNION {UNION {UNION {{Append(l, u) :
                                  l \in command_list(SubSeq(s, 1, i)),
                                  u \in command_unit(SubSeq(s, j + 1, Len(s)))} :
                              j \in SpaceAfter(s, k)} :
                       i \in SpaceBefore(s, k)} :
                k \in Places(s, ";")}
    \cup (IF Len(s) >= 1 /\ s[Len(s)] = ";"
          THEN UNION {command_list(SubSeq(s, 1, i)) : i \in SpaceBefore(s, Len(s))}
          ELSE {})

\* rule main: the values of parser.results after the whole line is fed
main(s) ==
    UNION {UNION {command_list(SubSeq(s, i + 1, j)) :
                     j \in {n \in i..Len(s) : OptionalSpace(SubSeq(s, n + 1, Len(s)))}} :
           i \in SpaceAfter(s, 0)}

\* the message of the error feed throws when no rule can take character k
SyntaxError(k) ==
    <<"Syntax error at line 1 col ", ToString(k)>>

\* n closing parentheses
Closers(n) ==
    [i \in 1..n |-> ")"]

\* the texts that complete every line of the model that begins a sentence
\* of the grammar: a word or a closing quote where one is awaited, then a
\* closing parenthesis for every group still open
Completions ==
    {core \o Closers(n) :
        core \in {<< >>, <<"a">>, <<" ", "a">>, <<"'">>, <<"\"">>},
        n \in 0..(MaxTyped + 1)}

\* after the text p has been fed the Earley table has states left: p
\* begins a sentence of the grammar
Scannable(p) ==
    \E c \in Completions : main(p \o c) # {}

\* the characters of the line at which feed throws
Unscannable(line) ==
    {k \in DOMAIN line : ~Scannable(SubSeq(line, 1, k))}

\* parse (sys/parser.js 10-37): a new Parser for every call; the line is
\* fed; the first of parser.results when there is one, [] when the line
\* ended before any derivation was complete, and the error node when feed
\* threw
parse(line) ==
    IF Unscannable(line) # {}
    THEN <<ErrorNode(SyntaxError(
              CHOOSE k \in Unscannable(line) : \A j \in Unscannable(line) : k <= j))>>
    ELSE IF main(line) # {}
    THEN CHOOSE result \in main(line) : TRUE
    ELSE << >>

\* runCommand line 144 alone: the line of the command buffer is parsed
ParseStep(w) ==
    [w EXCEPT !.task = [IdleTask EXCEPT !.pc = "parsed",
                                        !.ast = parse(w.kernel.commandBuffer),
                                        !.pfs0 = w.pfs]]

\* the characters typed freely
TypedChars == {"a", " ", "&", "|", ";", "("}

\* lines of the words a, b, c, d, f and the reserved words
NamedLines ==
    {<<"a", " ", "&", "&">>,
     <<"a", ")">>,
     <<"(", "a", ")">>,
     <<"(", " ", "a", ";", " ", "b", " ", ")", " ", "|", "c">>,
     <<"a", " ", "'", "b">>,
     <<"a", " ", "'", "b", " ", "&", "'">>,
     <<"a", " ", " ", "b">>,
     <<"a", " ", "&", "&", " ", "b">>,
     <<"a", " ", "&", "&", " ", "b", " ", "&">>,
     <<"a", " ", "&", "&", " ", "b", " ", "|", "|", " ", "c">>,
     <<"a", " ", "|", "|", " ", "b", " ", "&", "&", " ", "c">>,
     <<"a", " ", "|", " ", "b", " ", "&", "&", " ", "c", " ", "|", " ", "d">>,
     <<"a", " ", "&", "&", " ", "(", "b", " ", "|", "|", " ", "c", ")">>,
     <<"a", " ", "&", "&", " ", "b", " ", "&", ";", " ", "c", " ", "&">>,
     <<"a", " ", "&", "&", " ", "b", " ", "&", "&", " ", "c">>,
     <<"a", " ", "&", " ", "&", " ", "b">>,
     <<"a", " ", ">", " ", "f">>,
     <<"a", " ", ">", ">", "f", " ", "&">>,
     <<"-", "a">>,
     <<"i", "f">>,
     <<"f", "i">>,
     <<"t", "h", "e", "n">>,
     <<"e", "l", "s", "e">>,
     <<"a", " ", "i", "f">>,
     <<"i", "f", " ", "a">>,
     <<"(", "f", "i", ")">>,
     <<"a", " ", "|", " ", "t", "h", "e", "n">>,
     <<"i", "f", " ", "a", ";", " ", "t", "h", "e", "n", " ", "b", ";">>,
     <<"i", "f", " ", "a", ";", " ", "t", "h", "e", "n", " ", "b", ";", " ",
       "f", "i">>}

TypedLines ==
    {<< >>} \cup UNION {[1..n -> TypedChars] : n \in 1..MaxTyped} \cup NamedLines

InitParse ==
    /\ kernel = [cwd |-> Root, env |-> << >>, history |-> << >>,
                 commandBuffer |-> Empty, commandInProgress |-> FALSE,
                 lastExitStatus |-> 0, currentProcess |-> NoProcess,
                 write |-> TermSink]
    /\ pfs \in InitialStores
    /\ term = Empty
    /\ task = [IdleTask EXCEPT !.pfs0 = pfs]

\* the keys of a line have been typed
Type ==
    /\ task.pc = "idle"
    /\ kernel.commandBuffer = Empty
    /\ \E line \in TypedLines \ {<< >>} :
          Commit([World EXCEPT !.kernel.commandBuffer = line])

Parse ==
    /\ task.pc = "idle"
    /\ Commit(ParseStep(World))

NextParse ==
    \/ Type
    \/ Parse

SpecParse ==
    InitParse /\ [][NextParse]_vars

-----------------------------------------------------------------------------
(***************************************************************************)
(* C26.  parse returns for every line: the empty list for an empty or      *)
(* whitespace-only line, a list of one error node for every other line     *)
(* that has no derivation (rejected at a character, or ended too early),   *)
(* and the value of a derivation otherwise.  Stated for SpecParse.         *)
(***************************************************************************)
NoDerivationIsError ==
    task.pc = "parsed" =>
        LET line == kernel.commandBuffer IN
        IF OptionalSpace(line) THEN task.ast = << >>
        ELSE IF main(line) = {}
        THEN Len(task.ast) = 1 /\ task.ast[1].type = "error"
        ELSE task.ast \in main(line)

-----------------------------------------------------------------------------
(***************************************************************************)
(* C27.  A reserved word (if, then, else, fi) in command-name position     *)
(* gives no command node: every command node of a parsed line has a name,  *)
(* and the name is not a reserved word.  Stated for SpecParse.             *)
(***************************************************************************)
RECURSIVE CommandsIn(_)
\* the command nodes at or below a node
CommandsIn(node) ==
    CASE node.type = "command" -> {node}
      [] node.type = "pipeline" -> CommandsIn(node.from) \cup CommandsIn(node.to)
      [] node.type \in {"logical_and", "logical_or"} ->
            CommandsIn(node.left) \cup CommandsIn(node.right)
      [] node.type = "group" ->
            UNION {CommandsIn(node.commands[i]) : i \in DOMAIN node.commands}
      [] node.type = "if_statement" ->
            CommandsIn(node.condition)
            \cup UNION {CommandsIn(node.then_branch[i]) : i \in DOMAIN node.then_branch}
            \cup UNION {CommandsIn(node.else_branch[i]) : i \in DOMAIN node.else_branch}
      [] OTHER -> {}

ReservedWordNeverCommand ==
    task.pc = "parsed" =>
        \A i \in DOMAIN task.ast :
            \A node \in CommandsIn(task.ast[i]) :
                node.name # Null /\ node.name \notin reservedKeywords

-----------------------------------------------------------------------------
(***************************************************************************)
(* C29.  && and || bind tighter than the background suffix and associate   *)
(* to the left: in every parsed line the right operand of a logical node   *)
(* is a pipeline (a command, a group or a pipeline node, never a logical   *)
(* node) and no operand carries the background flag; `a && b &` is one     *)
(* statement logical_and(a, b) flagged background, `a && b || c` is        *)
(* logical_or(logical_and(a, b), c), and `a | b && c | d` is               *)
(* logical_and(a | b, c | d).  Stated for SpecParse.                       *)
(***************************************************************************)
RECURSIVE LogicalsIn(_)
\* the logical nodes at or below a node
LogicalsIn(node) ==
    CASE node.type = "pipeline" -> LogicalsIn(node.from) \cup LogicalsIn(node.to)
      [] node.type \in {"logical_and", "logical_or"} ->
            {node} \cup LogicalsIn(node.left) \cup LogicalsIn(node.right)
      [] node.type = "group" ->
            UNION {LogicalsIn(node.commands[i]) : i \in DOMAIN node.commands}
      [] node.type = "if_statement" ->
            LogicalsIn(node.condition)
            \cup UNION {LogicalsIn(node.then_branch[i]) : i \in DOMAIN node.then_branch}
            \cup UNION {LogicalsIn(node.else_branch[i]) : i \in DOMAIN node.else_branch}
      [] OTHER -> {}

\* the command with a one-letter name and no argument
Named(c) == Command(<<c>>, << >>)

LogicalBinding ==
    task.pc = "parsed" =>
        /\ \A i \in DOMAIN task.ast :
              \A node \in LogicalsIn(task.ast[i]) :
                  /\ node.right.type \in {"command", "group", "pipeline"}
                  /\ ~node.right.background
                  /\ ~node.left.background
        /\ kernel.commandBuffer = <<"a", " ", "&", "&", " ", "b", " ", "&">>
              => task.ast = <<Background(LogicalAnd(Named("a"), Named("b")))>>
        /\ kernel.commandBuffer =
              <<"a", " ", "&", "&", " ", "b", " ", "|", "|", " ", "c">>
              => task.ast = <<LogicalOr(LogicalAnd(Named("a"), Named("b")),
                                        Named("c"))>>
        /\ kernel.commandBuffer =
              <<"a", " ", "|", " ", "b", " ", "&", "&", " ", "c", " ", "|", " ", "d">>
              => task.ast = <<LogicalAnd(Pipeline(Named("a"), Named("b")),
                                         Pipeline(Named("c"), Named("d")))>>

\* `a && b || c` and `a && b &` have been parsed into a logical node
LogicalBindingWitness ==
    /\ task.pc = "parsed"
    /\ kernel.commandBuffer \in
          {<<"a", " ", "&", "&", " ", "b", " ", "|", "|", " ", "c">>,
           <<"a", " ", "&", "&", " ", "b", " ", "&">>}
    /\ Len(task.ast) = 1
    /\ task.ast[1].type \in {"logical_or", "logical_and"}
    /\ task.ast[1].left.type \in {"logical_and", "command"}

-----------------------------------------------------------------------------
(***************************************************************************)
(* C30.  Evaluating an error node with message m yields the stdout         *)
(* "-qrx: parse error: " m "\n" and the status 2; no command is run or     *)
(* dispatched for it and no file is written.                               *)
(***************************************************************************)
\* nothing but the enter, result, exit of the node and the driver's write
\* of its stdout has happened at the node
OnlyEvaluated(p) ==
    \A k \in Under(p) : task.log[k].ev \in {"enter", "result", "exit", "term"}

ErrorNodeResult ==
    \A p \in EnteredOfType({"error"}) :
        /\ OnlyEvaluated(p)
        /\ Has("result", p) =>
              /\ The("result", p).text =
                    <<"-qrx: parse error: ", NodeOf(p).message, "\n">>
              /\ The("result", p).status = 2
        /\ Has("exit", p) => pfs = task.pfs0

\* C30 as the spec words it: the stdout is "parse error: " followed by m
ErrorNodeResultExact ==
    \A p \in EnteredOfType({"error"}) :
        /\ OnlyEvaluated(p)
        /\ Has("result", p) =>
              /\ The("result", p).text = <<"parse error: ", NodeOf(p).message>>
              /\ The("result", p).status = 2

\* the line was an error node; it has been evaluated and its text is on
\* the terminal, and the status of the line is 2
ErrorNodeWitness ==
    /\ LineDone
    /\ task.ast = <<ErrorNode("Syntax error")>>
    /\ Has("exit", <<1>>)
    /\ The("exit", <<1>>).status = 2
    /\ Has("term", <<1>>)
    /\ The("term", <<1>>).text = <<"-qrx: parse error: ", "Syntax error", "\r", "\n">>

-----------------------------------------------------------------------------
(***************************************************************************)
(* C31.  A parse error is local to the malformed statement: when one of    *)
(* the statements of a line (the texts between its semicolons) is         *)
(* rejected at a character, the parsed line has an error node for it and   *)
(* still has the node of every well-formed statement of the line, which    *)
(* runCommand then executes.  Stated for SpecParse.                        *)
(***************************************************************************)
\* the semicolons of a line that stand outside every group and string
Separators(line) ==
    {k \in Places(line, ";") :
        LET before(c) == Cardinality({i \in Places(line, c) : i < k})
        IN  /\ before("(") = before(")")
            /\ before("'") % 2 = 0
            /\ before("\"") % 2 = 0}

\* the texts between the separators of a line
StatementTexts(line) ==
    LET cuts == {0, Len(line) + 1} \cup Separators(line)
    IN  {SubSeq(line, i + 1, j - 1) :
            <<i, j>> \in {c \in cuts \X cuts :
                            /\ c[1] < c[2]
                            /\ ~\E k \in cuts : c[1] < k /\ k < c[2]}}

ParseErrorIsLocal ==
    task.pc = "parsed" =>
        LET texts == StatementTexts(kernel.commandBuffer) IN
        (\E text \in texts : Unscannable(text) # {}) =>
            /\ \E n \in DOMAIN task.ast : task.ast[n].type = "error"
            /\ \A text \in texts :
                  main(text) # {} /\ ~OptionalSpace(text) =>
                      \E n \in DOMAIN task.ast : <<task.ast[n]>> \in main(text)

-----------------------------------------------------------------------------
(***************************************************************************)
(* C32.  An environment lookup never fails: when a command is dispatched,  *)
(* an argument that refers to a variable is replaced by the value env      *)
(* holds for it, or by the empty string when env has no entry for it; the  *)
(* step writes no message and leaves env as it is.                         *)
(***************************************************************************)
\* the variable an argument refers to, << >> when it is no reference
VariableOf(arg) ==
    IF arg = <<"$X">> THEN <<"X">> ELSE << >>

\* the arguments with every reference replaced by what env holds for it
Looked(args, env) ==
    [a \in DOMAIN args |->
        IF VariableOf(args[a]) = << >> THEN args[a]
        ELSE IF VariableOf(args[a]) \in DOMAIN env THEN env[VariableOf(args[a])]
        ELSE <<"">>]

EnvLookupStep ==
    \A k \in DOMAIN task'.log \ DOMAIN task.log :
        task'.log[k].ev = "run" =>
            LET p == task'.log[k].path
                node == LineNodeAt(task'.ast, p)
            IN  /\ task'.log[k].text =
                      Join(<<<<node.name>>>>
                           \o WordTexts(Looked(ExpandArgs(node.args,
                                                          kernel.lastExitStatus),
                                               kernel.env)),
                           <<" ">>)
                /\ IsAssignment(node.name, node.args) \/ kernel'.env = kernel.env

EnvLookupNeverFails ==
    [][EnvLookupStep]_vars

-----------------------------------------------------------------------------
(***************************************************************************)
(* C33.  A line that is one command without operator, redirection or '&'   *)
(* gives the status and the lines of output text that executeSingleCommand *)
(* gives when it is called for the command with null stdin and the         *)
(* terminal as sink: the status is the number the run returned, 0 when it  *)
(* returned none, and the terminal shows between the line and the next     *)
(* prompt the text the direct call writes (carriage returns aside: the     *)
(* terminal's writeln ends a line with two of them, the driver's write of  *)
(* captured text with one).                                                *)
(***************************************************************************)
\* the session as it is when the line is submitted, executeSingleCommand
\* about to be called outside executeNode
AtSubmit ==
    [kernel |-> [cwd |-> Root, env |-> << >>, history |-> << >>,
                 commandBuffer |-> Empty, commandInProgress |-> TRUE,
                 lastExitStatus |-> 0, currentProcess |-> NoProcess,
                 write |-> TermSink],
     pfs |-> task.pfs0,
     term |-> Empty,
     task |-> IdleTask]

\* executeSingleCommand(node, null) run to its end
DirectDispatch(w, node) ==
    LET args == ExpandArgs(node.args, w.kernel.lastExitStatus)
        called == SingleCommandSync(w, <<1>>, node.name, args, Null)
    IN  IF node.name \in Registered /\ Awaits(node.name, args, Null)
        THEN Settled(BuiltinRun(called.w, <<1>>, node.name, args, Null),
                     <<1>>, node.name)
        ELSE called

WithoutReturns(text) ==
    SelectSeq(text, LAMBDA c : c # "\r")

SingleCommandLine ==
    /\ LineDone
    /\ Len(task.ast) = 1
    /\ task.ast[1].type = "command"
    /\ ~HasRedirection(task.ast[1])
    /\ ~task.ast[1].background

\* what the terminal shows between the submitted line and the prompt
ShownForLine ==
    SubSeq(term, 3, Len(term) - Len(PromptText(kernel.cwd)))

-----------------------------------------------------------------------------
(***************************************************************************)
(* resolvePath called on paths of every shape, and cd lines run one after  *)
(* the other (sys/util/path.js, sys/cmd/cd.js).  A path is the list of the *)
(* pieces between its slashes.                                             *)
(***************************************************************************)
PathPieces == {"", ".", "..", "d"}

\* the non-empty paths
Paths ==
    UNION {[1..n -> PathPieces] : n \in 1..MaxParts} \ {<<"">>}

\* working directories, normalized or not
Cwds ==
    {<<"">> \o rest : rest \in UNION {[1..n -> PathPieces] : n \in 1..(MaxParts - 1)}}

\* the argument lists of the cd lines
CdArgs ==
    {<< >>, <<<<"d">>>>, <<<<"..">>>>, <<<<".">>>>, <<<<"f">>>>, <<<<"x">>>>,
     <<<<"", "d">>>>, <<<<"", "f">>>>, <<<<"d", "..", "sys">>>>, <<<<"sys", "cmd">>>>,
     <<<<"", "f", "..">>>>, <<<<"..", "..", "d", "">>>>, <<<<"">>>>}

\* resolvePath(path, cwd) is called
Resolve ==
    /\ task.pc = "idle"
    /\ task.log = << >>
    /\ \E path \in Paths, cwd \in Cwds :
          Commit(Log(World, Event("resolve", path, cwd, resolvePath(path, cwd), 0)))

\* the line cd args is run: cd.run resolves the target, awaits stat and
\* returns its status
CdStep(w, args) ==
    LET done == CdRun(w, <<1>>, args, Null) IN
    [done.w EXCEPT !.kernel.history = Append(@, <<Command("cd", args)>>),
                   !.kernel.lastExitStatus = StatusOf(done.returned),
                   !.task.log = <<Event("cd", <<1>>, w.kernel.cwd,
                                        IF args = << >> THEN << >> ELSE args[1],
                                        StatusOf(done.returned))>>]

ChangeDirectory ==
    /\ task.pc = "idle"
    /\ \A k \in DOMAIN task.log : task.log[k].ev = "cd"
    /\ Len(kernel.history) < MaxCds
    /\ \E args \in CdArgs : Commit(CdStep(World, args))

NextPaths ==
    \/ Resolve
    \/ ChangeDirectory

SpecPaths == Init /\ [][NextPaths]_vars

-----------------------------------------------------------------------------
(***************************************************************************)
(* C34.  resolvePath normalizes: for a non-empty path and any cwd the      *)
(* result starts with "/", has no empty, "." or ".." segment, and ".."     *)
(* resolved against it gives its parent, the root for the root; the result *)
(* for an absolute path is the same for every cwd; resolving the result    *)
(* again, against any cwd, returns it unchanged.  Stated for SpecPaths.    *)
(***************************************************************************)
Normalized(path) ==
    /\ Len(path) >= 2
    /\ path[1] = ""
    /\ path = Root \/ \A k \in 2..Len(path) : path[k] \notin {"", ".", ".."}

IsAbsolute(path) ==
    Len(path) >= 2 /\ path[1] = ""

ResolvePathNormalizes ==
    \A k \in DOMAIN task.log :
        task.log[k].ev = "resolve" =>
            LET path == task.log[k].path
                result == task.log[k].text
            IN  /\ Normalized(result)
                /\ resolvePath(<<"..">>, result) = Parent(result)
                /\ IsAbsolute(path) =>
                      \A cwd \in Cwds : resolvePath(path, cwd) = result
                /\ \A cwd \in Cwds : resolvePath(result, cwd) = result

\* ../../d resolved in /d: the second ".." is applied at the root
ResolvePathWitness ==
    /\ task.log # << >>
    /\ task.log[1].ev = "resolve"
    /\ task.log[1].path = <<"..", "..", "d">>
    /\ task.log[1].where = <<"", "d">>
    /\ task.log[1].text = <<"", "d">>

-----------------------------------------------------------------------------
(***************************************************************************)
(* C35.  cwd is always an absolute, normalized path, "/" at the start of   *)
(* the session.  Only cd changes it: when the resolved target is an        *)
(* existing directory cwd becomes that target and the status is 0; when    *)
(* the target is missing or is no directory cwd stays as it is and the     *)
(* status is 1.  Stated for SpecPaths.                                     *)
(***************************************************************************)
CwdNormalized ==
    /\ Normalized(kernel.cwd)
    /\ kernel.history = << >> => kernel.cwd = Root

CdStepContract ==
    /\ kernel'.cwd # kernel.cwd => Len(kernel'.history) = Len(kernel.history) + 1
    /\ Len(kernel'.history) = Len(kernel.history) + 1 =>
          LET args == kernel'.history[Len(kernel'.history)][1].args
              arg == IF args = << >> \/ args[1] = <<"">> THEN Root ELSE args[1]
              targetPath == resolvePath(arg, kernel.cwd)
          IN  IF targetPath \in pfs.dirs
              THEN kernel'.cwd = targetPath /\ kernel'.lastExitStatus = 0
              ELSE kernel'.cwd = kernel.cwd /\ kernel'.lastExitStatus = 1

CwdContract ==
    []CwdNormalized /\ [][CdStepContract]_vars

\* cd sys/cmd has succeeded and a cd to a file has failed after it
CwdWitness ==
    /\ kernel.cwd = <<"", "sys", "cmd">>
    /\ Len(kernel.history) = 2
    /\ kernel.history[2] = <<Command("cd", <<<<"", "f">>>>)>>
    /\ kernel.lastExitStatus = 1

-----------------------------------------------------------------------------
(***************************************************************************)
(* C36.  At most one call of runCommand is in flight at any time: while    *)
(* the call for a submitted line has not finished (its finally block has   *)
(* not issued the prompt) no call for another line is in flight, whatever  *)
(* keys are pressed.  Stated for SpecOverlap.                              *)
(***************************************************************************)
\* the call of runCommand t has begun and its finally block has not run
InFlight(t) ==
    t.pc # "idle"

OneRunCommandInFlight ==
    \A k \in DOMAIN task.other : ~(InFlight(task) /\ InFlight(task.other[k]))

-----------------------------------------------------------------------------
(***************************************************************************)
(* The keys of the next line (handlers/keys/printable.js, backspace.js,    *)
(* dispatched by InputHandler.handle, which drops them while               *)
(* commandInProgress is true).  The keys of the first line are part of     *)
(* Submit.                                                                 *)
(***************************************************************************)
KeyChars == {"a"}

\* the event loop takes a key: no call of runCommand is running, the one
\* in flight is suspended at an await
TakesKeys ==
    task.pc = "idle" \/ Suspended(task)

\* printable.run
PrintableStep(w, key) ==
    [w EXCEPT !.kernel.commandBuffer = Append(@, key),
              !.term = Append(@, key)]

\* backspace.run
BackspaceStep(w) ==
    IF Len(w.kernel.commandBuffer) > 0
    THEN [w EXCEPT !.term = Append(@, "\\b \\b"),
                   !.kernel.commandBuffer = SubSeq(@, 1, Len(@) - 1)]
    ELSE w

\* the Backspace keys that have erased a character
Erased ==
    Cardinality({k \in DOMAIN term : term[k] = "\\b \\b"})

Printable ==
    /\ ~kernel.commandInProgress
    /\ kernel.history # << >>
    /\ TakesKeys
    /\ Len(kernel.commandBuffer) < MaxKeys
    /\ \E key \in KeyChars : Commit(PrintableStep(World, key))

Backspace ==
    /\ ~kernel.commandInProgress
    /\ kernel.history # << >>
    /\ TakesKeys
    /\ Erased < MaxErased
    /\ Commit(BackspaceStep(World))

\* the session with Ctrl+C and the keys of the next line
NextKeys ==
    \/ Next
    \/ CtrlC
    \/ Printable
    \/ Backspace

SpecKeys == Init /\ [][NextKeys]_vars

-----------------------------------------------------------------------------
(***************************************************************************)
(* C37.  Between a prompt and the next Enter the command buffer changes    *)
(* only through the Printable and Backspace handlers: while                *)
(* commandInProgress is false no step but a key of these two changes       *)
(* commandBuffer, and no step issues another prompt; so the completion of  *)
(* an earlier command, one that went on after a Ctrl+C without cancel hook *)
(* included, discards nothing the user has typed.  Stated for SpecKeys.    *)
(***************************************************************************)
\* the step is the Printable or the Backspace handler
KeyStep ==
    /\ task' = task
    /\ \/ \E key \in KeyChars :
             kernel'.commandBuffer = Append(kernel.commandBuffer, key)
       \/ /\ kernel.commandBuffer # Empty
          /\ kernel'.commandBuffer =
                SubSeq(kernel.commandBuffer, 1, Len(kernel.commandBuffer) - 1)

\* the step writes a prompt to the terminal
PromptStep ==
    LET text == PromptText(kernel'.cwd) IN
    /\ Len(term') >= Len(term) + Len(text)
    /\ SubSeq(term', Len(term') - Len(text) + 1, Len(term')) = text

BufferChangedByKeysOnly ==
    [][~kernel.commandInProgress =>
          /\ kernel'.commandBuffer # kernel.commandBuffer => KeyStep
          /\ ~PromptStep]_vars

-----------------------------------------------------------------------------
(***************************************************************************)
(* C38.  The report ^C that cancelCurrentProcess writes when the running   *)
(* command has no cancel hook goes to the terminal and never into captured *)
(* output: it is in no command's buffer, in no stdout a node returns, in   *)
(* no stdin handed to a pipeline stage and in no file.  Stated for         *)
(* SpecOverlap.                                                            *)
(***************************************************************************)
HasReport(text) ==
    \E k \in DOMAIN text : text[k] = "^C"

\* the buffers of the command calls of the runCommand call t
BuffersOf(t) ==
    UNION {{t.stack[d].buffer[k] : k \in DOMAIN t.stack[d].buffer} :
              d \in DOMAIN t.stack}

CancelReportNotCaptured ==
    /\ \A text \in BuffersOf(task) : ~HasReport(text)
    /\ \A n \in DOMAIN task.other :
          \A text \in BuffersOf(task.other[n]) : ~HasReport(text)
    /\ \A k \in DOMAIN task.log :
          task.log[k].ev \in {"enter", "result", "exit", "write"} =>
              ~HasReport(task.log[k].text)
    /\ \A file \in DOMAIN pfs.files : ~HasReport(pfs.files[file])

-----------------------------------------------------------------------------
(***************************************************************************)
(* C39.  The stdout an if_statement's condition returns is no part of the  *)
(* if_statement's result and is delivered nowhere: the result's stdout is  *)
(* the stdout of the statements run in the selected branch, in order, and  *)
(* empty when no branch runs; while the condition is evaluated nothing is  *)
(* written to the terminal but the report of a failed write of the         *)
(* condition's own redirection, and no file is written but by the          *)
(* condition's own redirection.                                            *)
(***************************************************************************)
\* the statements of the branch b of the if_statement at p that have returned
ReturnedIn(p, b) ==
    {k \in DOMAIN StatementsOf(p, b) : Has("exit", p \o <<b, k>>)}

ConditionOutputDropped ==
    \A p \in EnteredOfType({"if_statement"}) :
        /\ \A k \in Under(p \o <<1>>) :
              /\ task.log[k].ev = "term" => Has("fail", task.log[k].path)
              /\ task.log[k].ev = "write" => HasRedirection(NodeOf(task.log[k].path))
        /\ Has("result", p) =>
              /\ Has("exit", p \o <<1>>)
              /\ LET b == Selected(p) IN
                 The("result", p).text =
                     ExitTexts(p \o <<b>>, 1, Cardinality(ReturnedIn(p, b)))

\* the line is an if_statement whose condition failed with a message and
\* whose else branch has run: the terminal shows the branch's text alone
ConditionOutputWitness ==
    /\ LineDone
    /\ task.ast = <<IfStatement(NotFound, <<EchoA>>, <<EchoB>>)>>
    /\ The("exit", <<1, 1>>).text = <<"command not found: ", "zzz", "\n">>
    /\ The("exit", <<1>>).text = <<"b", "\n">>
    /\ term = <<"\r", "\n", "b", "\r", "\n">> \o PromptText(kernel.cwd)

-----------------------------------------------------------------------------
(***************************************************************************)
(* The session when every pending continuation is run in the end and every *)
(* command's run terminates: the steps of runCommand and executeNode are   *)
(* taken when they can be, and the user of the editor closes it in the     *)
(* end (saves, cancels, or confirms the discard).  No line need ever be    *)
(* submitted.                                                              *)
(***************************************************************************)
\* the editor is closed by this step
EdCloses ==
    /\ EdSave \/ EdCancel \/ EdAnswer
    /\ kernel'.currentProcess = NoProcess

\* the continuations of runCommand and executeNode, and the settlements
\* of storage and network they await
Continues ==
    \/ RunCall
    \/ RunResume
    \/ RunFinally
    \/ RunCatch
    \/ StartError
    \/ StartLogicalAnd
    \/ StartLogicalOr
    \/ StartPipeline
    \/ StartGroup
    \/ StartIf
    \/ StartCommand
    \/ LeftReturns
    \/ RightReturns
    \/ FromReturns
    \/ ToReturns
    \/ GroupChildReturns
    \/ ConditionReturns
    \/ ThenChildReturns
    \/ ElseChildReturns
    \/ CommandSettles
    \/ RedirectRead
    \/ RedirectWrite
    \/ EdOpens

\* the lines of the sessions whose ends are followed: one for each kind
\* of node and of failure
LiveLines ==
    {<<ErrorNode("Syntax error")>>,
     <<Git>>,
     <<NotFound>>,
     <<Redirect(EchoA, "overwrite", FileNoDir), EchoB>>,
     <<Redirect(CatF, "append", FileF)>>,
     <<Pipeline(Git, Cat)>>,
     <<LogicalAnd(NotFound, EchoB)>>,
     <<LogicalOr(NotFound, EchoB)>>,
     <<Group(<<EchoA, NotFound>>)>>,
     <<IfStatement(NotFound, <<EchoA>>, <<EchoB>>)>>,
     <<IfStatement(EchoA, <<Git, EchoB>>, << >>)>>,
     <<Background(CatF), EchoB>>,
     <<CdD, CatF>>,
     <<Ed>>,
     <<Absent>>,
     <<EchoA, Absent, EchoB>>}

SubmitLive ==
    /\ task.pc = "idle"
    /\ ~kernel.commandInProgress
    /\ kernel.history = << >>
    /\ \E line \in LiveLines : Commit(SubmitStep(World, line))

NextLive ==
    \/ SubmitLive
    \/ Continues
    \/ EdInput
    \/ EdSave
    \/ EdCancel
    \/ EdAnswer

SpecLive ==
    Init /\ [][NextLive]_vars /\ WF_vars(Continues) /\ SF_vars(EdCloses)

-----------------------------------------------------------------------------
(***************************************************************************)
(* C40.  Every submitted line leads back to a prompt: whenever a command   *)
(* is in progress, later runCommand has finished, commandInProgress is     *)
(* false and the prompt is the last thing on the terminal - also when the  *)
(* line is a parse error, a command throws or is not found, a redirection  *)
(* write fails or executeNode rejects.  Stated for SpecLive.               *)
(***************************************************************************)
AtPrompt ==
    LET text == PromptText(kernel.cwd) IN
    /\ task.pc = "idle"
    /\ ~kernel.commandInProgress
    /\ Len(term) >= Len(text)
    /\ SubSeq(term, Len(term) - Len(text) + 1, Len(term)) = text

LineReturnsToPrompt ==
    kernel.commandInProgress ~> AtPrompt

\* the line whose redirection write failed is over, its second statement
\* has run and the prompt is there
LineReturnsWitness ==
    /\ AtPrompt
    /\ task.ast = <<Redirect(EchoA, "overwrite", FileNoDir), EchoB>>
    /\ Has("fail", <<1>>)
    /\ The("exit", <<2>>).status = 0

====
